---- MODULE Spec2Model ----
(***************************************************************************)
(* Verification model of the portfolio page scripts:                       *)
(*   src/js/pipeline-main.js  (page script, an IIFE with private state)    *)
(*   src/js/utils.js          (exported helpers, createCleanupRegistry)    *)
(*                                                                         *)
(* The effects share no mutable state, so each group of effects is checked *)
(* in a specification of its own over the same variables:                  *)
(*   Spec          the two particle loops drawing on #pipeline-canvas      *)
(*   SpecTeardown  Spec plus a driver that runs cleanupRegistry            *)
(*   SpecRegistry  utils.js createCleanupRegistry (add / cleanup)          *)
(*   SpecCounters  initMetricCounters / initImpactCounters                 *)
(*   SpecReveal    the reveal observers (certifications, cards, timeline)  *)
(***************************************************************************)
EXTENDS Integers, Sequences, FiniteSets, TLC

\* ------------------------------------------------------------------ bounds
\* IntersectionObserver entries that may queue up between two deliveries
MaxEntries == 3

\* add() calls made on one cleanup registry
MaxCleanups == 3
\* cleanup() calls made in a row on one cleanup registry
MaxCleanupCalls == 3
\* counter elements ([data-target]) in each counter section
NumCounters == 2
\* animateCounter calls counted per element
StartCap == 3
\* elements observed by each reveal observer
NumRevealEls == 2
\* intersecting reports counted per revealed element
RevealCap == 2
\* largest logical core count a device reports
MaxCores == 6
\* the time in ms up to which scroll events are followed
MaxScrollTime == 250
\* the time in ms up to which the timed helpers are followed
MaxTime == 6
\* largest `delay` given to throttle and debounce, in ms
MaxDelay == 3
\* distinct argument values passed to a throttled or debounced function
NumArgs == 2
\* images in document.images
NumImages == 2
\* pending hide timers of the tooltip
MaxHideTimers == 2
\* .company-roles / .project-roles sections
NumRoles == 1
\* .achievement-list / .project-highlights lists
NumLists == 1
\* items of an achievement list
MaxItems == 5
\* clicks followed on one toggle button
MaxClicks == 3
\* project cards
NumCards == 2
\* featured project cards
MaxFeatured == 3
\* clicks on filter buttons
MaxFilterClicks == 2
\* ms of the filter clock
MaxFilterTime == 400
\* largest target and duration passed to animateCounter
MaxTarget == 4
MaxDuration == 50
\* largest window.devicePixelRatio
MaxDpr == 3
\* particles of the gated effect's list that the model follows
ParticlesTracked == 2
\* frames a particle takes from one node to the next (1 / speed)
ProgressSteps == 2

\* ------------------------------------------------------- program constants
\* nodes.length of the gated canvas effect
NumNodes == 5
\* the documented window of the scroll handlers, in ms
ScrollWindow == 100

Null == 0          \* null / undefined for request ids
NoNode == -1       \* hoveredNode === null

VARIABLES
    \* --- environment of the canvas effects
    reducedMotion,       \* matchMedia('(prefers-reduced-motion: reduce)').matches
    canvasPresent,       \* document.getElementById('pipeline-canvas') !== null
    canvasIntersecting,  \* whether #pipeline-canvas intersects the viewport now
    \* --- page lifecycle
    domReady,            \* DOMContentLoaded handler has run
    initialized,         \* initializeAnimations() has run
    unloaded,            \* beforeunload has been dispatched
    \* --- window state
    frames,              \* pending requestAnimationFrame callbacks: [id, loop]
    listeners,           \* event listeners currently registered
    \* --- closure of initInteractivePipelineCanvas (the gated loop)
    isCanvasVisible,
    animationFrameId,
    hoveredNode,
    particles,           \* the array `particles`: [startNode, endNode,
                         \* progress, color]
    tracked,             \* how many particles of the array the model follows
    observing,           \* canvasObserver observes the canvas
    ioQueue,             \* entries queued for canvasObserver, oldest first
    resizeThrottle,      \* [lastRan, timer] of Utils.throttle(resizeCanvas, 250)
    moveThrottle,        \* [lastRan, timer, arg] of Utils.throttle(mousemove, 50)
    cleanupRegistry,     \* the closures pushed to cleanupRegistry, in order
    cleanupRuns,         \* how often each pushed closure has been called
    \* --- closure of initInteractivePipeline (the ungated loop)
    animationFrame,
    \* --- observation (history) variables
    lastReport,          \* the last call of canvasObserver's callback
    tornDown,            \* the cleanupRegistry closures have been run
    lastFrame,           \* what the last step did to the canvas
    \* --- utils.js createCleanupRegistry(): one registry
    cleanups,            \* the array `cleanups`: ids of the pushed closures
    regThrows,           \* per id: whether its removeEventListener call throws
    regInvoked,          \* per id: how often its closure has been called
    regLast,             \* the last cleanup() call: expected, order, threw
    regCalls,            \* cleanup() calls since the last add()
    \* --- initMetricCounters / initImpactCounters
    countersReady,       \* both init functions have run
    sectionPresent,      \* per section: querySelector finds it
    sectionVisible,      \* per section: its rect overlaps the viewport
    animated,            \* per section: the closure flag animated/impactAnimated
    counterStarts,       \* per section and element: animateCounter calls
    counterRunning,      \* per section and element: intervals not yet cleared
    checkedVisible,      \* per section: some check found the section visible
    \* --- initCertificationAnimations / initSmoothReveals / initTimeline
    revealReady,         \* the three init functions have run
    observed,            \* per observer: the elements it observes
    revealScheduled,     \* per observer and element: reveals scheduled
    revealTimer,         \* per observer and element: a reveal timer is pending
    revealed,            \* per observer and element: style.opacity === '1'
    \* --- the device the page runs on (navigator, window)
    hardwareConcurrency, \* navigator.hardwareConcurrency, 0 when undefined
    deviceMemory,        \* navigator.deviceMemory in quarters of a GiB, 0
                         \* when undefined
    innerWidth,          \* window.innerWidth in px
    \* --- initInteractivePipelineCanvas: the adaptive particle count
    deviceProbed,        \* lines 128-130 have run
    isMobile,
    isLowEnd,
    particleCount,
    \* --- the window 'scroll' listeners of pipeline-main.js
    scrollNow,           \* the time in ms
    gridPresent,         \* document.querySelector('.grid-background') !== null
    scrollInstalled,     \* the scroll handlers registered so far
    lastScrollAt,        \* when the last scroll event was dispatched, 0: never
    lastExecAt,          \* per handler: when it last executed, 0: never
    tooSoon,             \* per handler: it executed twice within ScrollWindow
    \* --- the clock of the timed helpers
    now,                 \* Date.now(), in ms
    \* --- one function returned by throttle(func, delay)
    thDelay,             \* the argument `delay`
    thLastRan,           \* the closure variable lastRan, 0 when undefined
    thTimer,             \* the timer of timeoutId: [pending, due, args]
    thInvokedAt,         \* when func was last invoked, 0: never
    thInvocations,       \* how often func has been invoked (up to MaxTime)
    thTooSoon,           \* func was invoked less than delay after an invocation
    thFirstCall,         \* the first call: "none", "sync" or "deferred"
    \* --- one function returned by debounce(func, delay)
    dbDelay,             \* the argument `delay`
    dbTimer,             \* the timer of timeoutId: [pending, due, args]
    dbLastCallAt,        \* when the debounced function was last called, 0: never
    dbLastCallArgs,      \* the arguments of that call
    dbBursts,            \* maximal bursts of calls begun so far
    dbInvocations,       \* how often func has been invoked
    dbLost,              \* bursts whose timer a later burst's call cancelled
    dbBadInvoke,         \* func was invoked too early or with other arguments
    \* --- the resources of the document
    fontsReady,          \* document.fonts.ready has fulfilled
    images,              \* per image of document.images: "pending",
                         \* "loaded" or "broken"
    \* --- waitForResources, per implementation ("inline": Utils of
    \*     pipeline-main.js, "utils": utils.js)
    wfr,                 \* [called, imgs, state]: the image promises and the
                         \* returned promise ("pending", "resolved", "rejected")
    \* --- the window 'load' handler
    loadingScreen,       \* getElementById('loading-screen') !== null
    mainContainer,       \* getElementById('main-container') !== null
    loadStage,           \* "idle", "awaiting", "delay", "fading" or "done"
    screenHidden,        \* #loading-screen has the class hidden
    mainShown,           \* #main-container has lost the class hidden
    initCalls,           \* calls of initializeAnimations()
    \* --- initSkillRadarChart
    radarContainer,      \* querySelector('.skill-radar-container') !== null
    radarReady,          \* initSkillRadarChart() has run
    radarObserving,      \* the observer observes the container
    radarIntersecting,   \* the container intersects at the 0.3 threshold
    radarQueue,          \* entries queued for the observer's callback
    radarLoops           \* the draw-in loops started, in order: [progress,
                         \* pending]

canvasVars == <<reducedMotion, canvasPresent, canvasIntersecting, domReady,
                initialized, unloaded, frames, listeners, isCanvasVisible,
                animationFrameId, hoveredNode, observing, ioQueue,
                resizeThrottle, moveThrottle, cleanupRegistry, cleanupRuns,
                animationFrame, lastReport, tornDown, lastFrame, particles,
                tracked>>
registryVars == <<cleanups, regThrows, regInvoked, regLast, regCalls>>
counterVars == <<countersReady, sectionPresent, sectionVisible, animated,
                 counterStarts, counterRunning, checkedVisible>>
revealVars == <<revealReady, observed, revealScheduled, revealTimer, revealed>>
deviceVars == <<hardwareConcurrency, deviceMemory, innerWidth, deviceProbed,
                isMobile, isLowEnd, particleCount>>
scrollVars == <<scrollNow, gridPresent, scrollInstalled, lastScrollAt,
                lastExecAt, tooSoon>>
throttleVars == <<thDelay, thLastRan, thTimer, thInvokedAt, thInvocations,
                  thTooSoon, thFirstCall>>
debounceVars == <<dbDelay, dbTimer, dbLastCallAt, dbLastCallArgs, dbBursts,
                  dbInvocations, dbLost, dbBadInvoke>>
resourceVars == <<fontsReady, images, wfr>>
loadVars == <<loadingScreen, mainContainer, loadStage, screenHidden,
              mainShown, initCalls>>
loadingVars == <<resourceVars, loadVars>>
radarVars == <<radarContainer, radarReady, radarObserving, radarIntersecting,
               radarQueue, radarLoops>>
VARIABLES
    \* --- initCollapsibleSections
    collapseReady,       \* initCollapsibleSections() has run
    roles,               \* per .company-roles / .project-roles section:
                         \* [heading, list, scrollHeight, button, maxHeight,
                         \*  opacity, label, expanded, clicks]
    lists                \* per .achievement-list / .project-highlights list:
                         \* [display, button, label, expanded, clicks]

collapseVars == <<collapseReady, roles, lists>>
VARIABLES
    \* --- initPipelineNavigation (section navigation)
    navReady,            \* initPipelineNavigation() has run
    currentSectionIndex,
    isTransitioning,
    sectionExists,       \* per section: getElementById(sections[i].id) !== null
    sectionActive,       \* per section: the element carries class 'active'
    flowActive,          \* per flow step: it carries class 'active'
    prevDisabled,        \* #prev-section disabled
    nextDisabled,        \* #next-section disabled
    counterCurrent       \* text of .section-counter .current

navVars == <<navReady, currentSectionIndex, isTransitioning, sectionExists,
             sectionActive, flowActive, prevDisabled, nextDisabled,
             counterCurrent>>
VARIABLES
    \* --- initProjectFilters
    filtersReady,        \* initProjectFilters() has run
    filterNow,           \* ms since the page was set up
    cardCategories,      \* per project card: the filters found in data-category
    cardDisplay,         \* per project card: style.display
    cardOpacity,         \* per project card: style.opacity
    filterActive,        \* the filter buttons carrying class 'active'
    filterTimers,        \* pending timers: [card, kind, due, seq]
    filterSeq,           \* timers created so far
    lastFilter           \* the filter clicked last, "" before the first click

filterVars == <<filtersReady, filterNow, cardCategories, cardDisplay,
                cardOpacity, filterActive, filterTimers, filterSeq,
                lastFilter>>
VARIABLES
    \* --- #pipeline-tooltip
    tooltipPresent,      \* getElementById('pipeline-tooltip') !== null, with
                         \* its title and description elements
    tooltipDisplay,      \* tooltip.style.display
    tooltipOpacity,      \* tooltip.style.opacity
    tooltipTimers,       \* pending 200 ms timers of hidePipelineTooltip
    tipLastEvent         \* on a page with the tooltip, the last pointer event
                         \* on the canvas: "none", "move" or "leave"

tooltipVars == <<tooltipPresent, tooltipDisplay, tooltipOpacity,
                 tooltipTimers, tipLastEvent>>
VARIABLES
    \* --- initCaseStudyModals and initProjectModals
    caseStudyReady,      \* initCaseStudyModals() has run
    projectModalsReady,  \* initProjectModals() has run
    featuredCards,       \* number of .project-card.featured elements
    cardHasTech,         \* per featured card: it has a .project-tech element
    closeWired,          \* initProjectModals() got to register closeModal
    btnListeners,        \* per featured card: the click listeners of its
                         \* first .view-case-study-btn, in registration order
    caseStudyActive,     \* #case-study-modal carries class 'active'
    projectModalActive,  \* #project-modal carries class 'active'
    bodyOverflow,        \* document.body.style.overflow
    caseStudyShown,      \* id of the study written to #case-study-modal
    projectShown,        \* index of the card written to #project-modal
    closesSinceClick     \* close actions since the last click on a card's
                         \* button, counted up to 2; 2 before any click

modalVars == <<caseStudyReady, projectModalsReady, featuredCards,
               cardHasTech, closeWired,
               btnListeners, caseStudyActive, projectModalActive,
               bodyOverflow, caseStudyShown, projectShown,
               closesSinceClick>>
VARIABLES
    animTarget,          \* animateCounter: argument target
    animDuration,        \* animateCounter: argument duration
    animCurrent,         \* animateCounter: current, in units of 1/animDuration
    animTimer,           \* animateCounter: the interval is set
    animText,            \* element.textContent, as a number
    animWritten,         \* a tick has written element.textContent
    animOrdered          \* history: no tick wrote less than the tick before

animVars == <<animTarget, animDuration, animCurrent, animTimer, animText,
              animWritten, animOrdered>>
VARIABLES
    offsetWidth,         \* canvas.offsetWidth, the laid-out width
    canvasWidth,         \* canvas.width
    canvasScale,         \* `scale` of resizeCanvas
    rsLastArgs,          \* history: arguments of the latest call, 0 if none
    rsLastCallAt,        \* history: time of the latest call
    rsRanArgs,           \* history: arguments func was last invoked with
    rsLate               \* history: a timer invoked func after its due time

resizeVars == <<offsetWidth, canvasWidth, canvasScale, rsLastArgs,
                rsLastCallAt, rsRanArgs, rsLate>>
pageVars == <<collapseVars, navVars, filterVars, tooltipVars, modalVars,
              animVars, resizeVars>>
utilVars == <<deviceVars, scrollVars, now, throttleVars, debounceVars,
              loadingVars, radarVars, pageVars>>
effectVars == <<canvasVars, registryVars, counterVars, revealVars>>
\* everything but one group
timedVars == <<now, throttleVars, debounceVars>>
exceptDevice == <<effectVars, scrollVars, timedVars, loadingVars, radarVars,
                  pageVars>>
exceptScroll == <<effectVars, deviceVars, timedVars, loadingVars, radarVars,
                  pageVars>>
exceptTimed == <<effectVars, deviceVars, scrollVars, loadingVars, radarVars,
                 pageVars>>
exceptLoading == <<effectVars, deviceVars, scrollVars, timedVars, radarVars,
                   pageVars>>
exceptRadar == <<effectVars, deviceVars, scrollVars, timedVars, loadingVars,
                 pageVars>>
restPageCollapse == <<deviceVars, scrollVars, timedVars, loadingVars,
                      radarVars, navVars, filterVars, tooltipVars, modalVars,
                      animVars, resizeVars>>
exceptPageCollapse == <<effectVars, restPageCollapse>>
restPageNav == <<deviceVars, scrollVars, timedVars, loadingVars, radarVars,
                 collapseVars, filterVars, tooltipVars, modalVars, animVars,
                 resizeVars>>
exceptPageNav == <<effectVars, restPageNav>>
restPageFilter == <<deviceVars, scrollVars, timedVars, loadingVars,
                    radarVars, collapseVars, navVars, tooltipVars, modalVars,
                    animVars, resizeVars>>
exceptPageFilter == <<effectVars, restPageFilter>>
restPageTooltip == <<deviceVars, scrollVars, timedVars, loadingVars,
                     radarVars, collapseVars, navVars, filterVars, modalVars,
                     animVars, resizeVars>>
exceptPageTooltip == <<effectVars, restPageTooltip>>
restPageModal == <<deviceVars, scrollVars, timedVars, loadingVars, radarVars,
                   collapseVars, navVars, filterVars, tooltipVars, animVars,
                   resizeVars>>
exceptPageModal == <<effectVars, restPageModal>>
restPageAnimate == <<deviceVars, scrollVars, timedVars, loadingVars,
                     radarVars, collapseVars, navVars, filterVars,
                     tooltipVars, modalVars, resizeVars>>
exceptPageAnimate == <<effectVars, restPageAnimate>>
restPageResize == <<deviceVars, scrollVars, timedVars, loadingVars,
                    radarVars, collapseVars, navVars, filterVars,
                    tooltipVars, modalVars, animVars>>
exceptPageResize == <<effectVars, restPageResize>>
exceptResize == <<effectVars, deviceVars, scrollVars, debounceVars,
                  loadingVars, radarVars, collapseVars, navVars, filterVars,
                  tooltipVars, modalVars, animVars>>
vars == <<effectVars, utilVars>>

\* ------------------------------------------------------------------------
\* requestAnimationFrame / cancelAnimationFrame
\* ------------------------------------------------------------------------

\* The window hands out request ids that are never reused. Only equality of
\* ids is observable, so a fresh id is any id that is neither pending nor
\* still held in a variable.
FreshId(fr, held) ==
    CHOOSE n \in 1..(Cardinality(fr) + Cardinality(held) + 1) :
        /\ n \notin {f.id : f \in fr}
        /\ n \notin held

cancelAnimationFrame(fr, id) == {f \in fr : f.id # id}

\* The part of the state the loops' code reads and writes.
\*   drew: the code cleared and redrew the canvas during this call
Loops ==
    [frames |-> frames, isCanvasVisible |-> isCanvasVisible,
     animationFrameId |-> animationFrameId, animationFrame |-> animationFrame,
     particles |-> particles, drew |-> FALSE]

requestAnimationFrame(s, loop) ==
    LET id == FreshId(s.frames, {s.animationFrameId, s.animationFrame})
    IN  [id |-> id, frames |-> s.frames \cup {[id |-> id, loop |-> loop]}]

\* ------------------------------------------------------------------------
\* initInteractivePipelineCanvas: the visibility-gated loop
\* ------------------------------------------------------------------------

\* The colours of `nodes`, in the order of the list.
NodeColors == <<"#00ff88", "#00d4ff", "#fbbf24", "#ff0080", "#a855f7">>

\* nodes[index].color
nodeColor(index) == NodeColors[index + 1]

\* class Particle, constructor(startNode, endNode), as called by the
\* creation loop: new Particle(nodes[startIndex], nodes[startIndex + 1]).
\* Nodes are named by their index in `nodes`; progress counts in units of
\* the particle's speed.
newParticle(startIndex) ==
    [startNode |-> startIndex, endNode |-> startIndex + 1, progress |-> 0,
     color |-> nodeColor(startIndex)]

updateParticle_colorKeptOnRestart(p) ==
    LET progress == p.progress + 1
    IN  IF progress >= ProgressSteps
        THEN IF p.endNode < NumNodes - 1
             THEN [startNode |-> p.endNode, endNode |-> p.endNode + 1,
                   progress |-> 0, color |-> nodeColor(p.endNode)]
             ELSE [startNode |-> 0, endNode |-> 1, progress |-> 0,
                   color |-> p.color]
        ELSE [p EXCEPT !.progress = progress]

\* Particle.update()
updateParticle(p) ==
    LET progress == p.progress + 1
    IN  IF progress >= ProgressSteps
        THEN IF p.endNode < NumNodes - 1
             THEN [startNode |-> p.endNode, endNode |-> p.endNode + 1,
                   progress |-> 0, color |-> nodeColor(p.endNode)]
             ELSE [startNode |-> 0, endNode |-> 1, progress |-> 0,
                   color |-> nodeColor(0)]
        ELSE [p EXCEPT !.progress = progress]

\* particles.forEach(p => { p.update(); p.draw(); })
updateParticles(ps) == [i \in DOMAIN ps |-> updateParticle(ps[i])]

\* function animate() of initInteractivePipelineCanvas
animate(s) ==
    IF ~s.isCanvasVisible
    THEN s
    ELSE LET r == requestAnimationFrame(s, "gated")
         IN  [s EXCEPT !.drew = TRUE, !.frames = r.frames,
                       !.animationFrameId = r.id,
                       !.particles = updateParticles(@)]

\* function animate() when a call inside it throws (clearRect,
\* drawConnections, p.update(), p.draw() or drawNodes): nothing catches the
\* exception, so the statements after the throw, the requestAnimationFrame
\* call among them, do not run and animationFrameId keeps its value.
\* k: the particles updated before the throw.
animateThrows(s, k) ==
    [s EXCEPT !.drew = TRUE,
              !.particles = [i \in DOMAIN @ |->
                                IF i <= k THEN updateParticle(@[i]) ELSE @[i]]]

\* Mutant: the observer restarts the loop without looking at animationFrameId.
observerEntry_noPendingCheck(s, isIntersecting) ==
    LET s1 == [s EXCEPT !.isCanvasVisible = isIntersecting]
    IN  IF s1.isCanvasVisible
        THEN animate(s1)
        ELSE IF s1.animationFrameId # Null
        THEN [s1 EXCEPT !.frames = cancelAnimationFrame(@, s1.animationFrameId),
                        !.animationFrameId = Null]
        ELSE s1

\* Mutant: the observer forgets the frame request without cancelling it.
observerEntry_noCancel(s, isIntersecting) ==
    LET s1 == [s EXCEPT !.isCanvasVisible = isIntersecting]
    IN  IF s1.isCanvasVisible /\ s1.animationFrameId = Null
        THEN animate(s1)
        ELSE IF ~s1.isCanvasVisible /\ s1.animationFrameId # Null
        THEN [s1 EXCEPT !.animationFrameId = Null]
        ELSE s1

\* body of entries.forEach(entry => ...) in canvasObserver's callback
observerEntry(s, isIntersecting) ==
    LET s1 == [s EXCEPT !.isCanvasVisible = isIntersecting]
    IN  IF s1.isCanvasVisible /\ s1.animationFrameId = Null
        THEN animate(s1)
        ELSE IF ~s1.isCanvasVisible /\ s1.animationFrameId # Null
        THEN [s1 EXCEPT !.frames = cancelAnimationFrame(@, s1.animationFrameId),
                        !.animationFrameId = Null]
        ELSE s1

\* canvasObserver's callback: entries.forEach(...)
RECURSIVE canvasObserverCallback(_, _)
canvasObserverCallback(s, entries) ==
    IF entries = <<>>
    THEN s
    ELSE canvasObserverCallback(observerEntry(s, Head(entries)), Tail(entries))

\* ------------------------------------------------------------------------
\* initInteractivePipeline: the second loop on the same canvas
\* ------------------------------------------------------------------------

\* function animate() of initInteractivePipeline
animateUngated(s) ==
    LET r == requestAnimationFrame(s, "ungated")
    IN  [s EXCEPT !.drew = TRUE, !.frames = r.frames, !.animationFrame = r.id]

\* ------------------------------------------------------------------------
\* Utils.throttle, with the clock abstracted: the first call runs func at
\* once; a later call replaces the pending timer; when the timer fires the
\* elapsed-time test decides whether func runs.
\* ------------------------------------------------------------------------
ThrottleInit == [lastRan |-> FALSE, timer |-> FALSE, arg |-> NoNode]

\* the function returned by Utils.throttle; runNow: func is applied in the call
throttleCall(t, arg) ==
    IF ~t.lastRan
    THEN [t |-> [t EXCEPT !.lastRan = TRUE], runNow |-> TRUE]
    ELSE [t |-> [t EXCEPT !.timer = TRUE, !.arg = arg], runNow |-> FALSE]

\* ------------------------------------------------------------------------
\* The closures pushed to cleanupRegistry
\* ------------------------------------------------------------------------
CleanupState ==
    [frames |-> frames, listeners |-> listeners, observing |-> observing,
     ioQueue |-> ioQueue, animationFrameId |-> animationFrameId]

\* () => window.removeEventListener('resize', resizeHandler)
cleanupResize(c) == [c EXCEPT !.listeners = @ \ {"resize"}]

\* () => { canvasObserver.disconnect();
\*         if (animationFrameId) cancelAnimationFrame(animationFrameId); }
\* disconnect() ends the observation of the canvas. What becomes of the
\* entries already queued for the callback is the browser's choice
\* (DisconnectQueue). The closure leaves isCanvasVisible and
\* animationFrameId as they are.
cleanupObserver(c) ==
    LET c1 == [c EXCEPT !.observing = FALSE]
    IN  IF c1.animationFrameId # Null
        THEN [c1 EXCEPT !.frames = cancelAnimationFrame(@, c1.animationFrameId)]
        ELSE c1

\* IntersectionObserver.disconnect() and the entries already queued: the
\* standard's disconnect() only removes the targets, so the next
\* notification still delivers the queue; engines that keep the entries with
\* the observation discard them. Both outcomes are possible.
DisconnectQueue(queue) == {queue, <<>>}

\* () => canvas.removeEventListener('mousemove', handleMouseMove)
cleanupMousemove(c) == [c EXCEPT !.listeners = @ \ {"mousemove"}]

runCleanupClosure(name, c) ==
    CASE name = "resize"    -> cleanupResize(c)
      [] name = "observer"  -> cleanupObserver(c)
      [] name = "mousemove" -> cleanupMousemove(c)

RECURSIVE runCleanupClosures(_, _)
runCleanupClosures(names, c) ==
    IF names = <<>>
    THEN c
    ELSE runCleanupClosures(Tail(names), runCleanupClosure(Head(names), c))

\* ------------------------------------------------------------------------
\* Canvas effects: initial state and actions
\* ------------------------------------------------------------------------

\* The pending frame requests of the gated loop.
GatedPending == {f \in frames : f.loop = "gated"}

\* lastReport records the last call of canvasObserver's callback:
\*   seen            the callback has been called
\*   isIntersecting  entry.isIntersecting of the last entry it handled
\*   kept            every entry was intersecting and a frame of the gated
\*                   loop was pending when the callback was called
NoReport == [seen |-> FALSE, isIntersecting |-> FALSE, kept |-> FALSE]

HoverTargets == {NoNode} \cup (0..(NumNodes - 1))

\* n: the number of particles the model follows. The array holds
\* particleCount particles (5, 10 or 20); they are created and updated alike
\* and independently, so the model keeps the first n of them.
CanvasStart(n) ==
    /\ tracked = n
    /\ reducedMotion \in BOOLEAN
    /\ canvasPresent \in BOOLEAN
    /\ canvasIntersecting \in BOOLEAN
    /\ (~canvasPresent => ~canvasIntersecting)
    /\ domReady = FALSE
    /\ initialized = FALSE
    /\ unloaded = FALSE
    /\ frames = {}
    /\ listeners = {}
    /\ isCanvasVisible = TRUE
    /\ animationFrameId = Null
    /\ hoveredNode = NoNode
    /\ particles = <<>>
    /\ observing = FALSE
    /\ ioQueue = <<>>
    /\ resizeThrottle = ThrottleInit
    /\ moveThrottle = ThrottleInit
    /\ cleanupRegistry = <<>>
    /\ cleanupRuns = <<>>
    /\ animationFrame = Null
    /\ lastReport = NoReport
    /\ tornDown = FALSE
    /\ lastFrame = "none"

\* The specifications that are not about the particles follow none of them.
CanvasInit == CanvasStart(0)

\* The canvas effects left as the page script finds them, for the
\* specifications that exercise another group of effects.
CanvasIdle ==
    /\ CanvasInit
    /\ ~reducedMotion
    /\ ~canvasPresent

SetLoops(s) ==
    /\ frames' = s.frames
    /\ isCanvasVisible' = s.isCanvasVisible
    /\ animationFrameId' = s.animationFrameId
    /\ animationFrame' = s.animationFrame
    /\ particles' = s.particles

\* document 'DOMContentLoaded' handler -> initInteractivePipeline()
DOMContentLoaded ==
    /\ ~domReady /\ ~unloaded
    /\ domReady' = TRUE
    /\ IF canvasPresent
       THEN LET s == animateUngated(Loops)
            IN  /\ SetLoops(s)
                /\ listeners' = listeners \cup {"resize2", "beforeunload"}
                /\ lastFrame' = "ungatedSync"
       ELSE /\ UNCHANGED <<frames, isCanvasVisible, animationFrameId,
                           animationFrame, particles, listeners>>
            /\ lastFrame' = "none"
    /\ UNCHANGED <<tracked, reducedMotion, canvasPresent, canvasIntersecting,
                   initialized, unloaded, hoveredNode, observing, ioQueue,
                   resizeThrottle, moveThrottle, cleanupRegistry, cleanupRuns,
                   lastReport, tornDown>>
    /\ UNCHANGED <<registryVars, counterVars, revealVars, utilVars>>

\* Mutant: initInteractivePipelineCanvas goes on without its canvas.
canvasFound_unchecked == TRUE

\* const canvas = document.getElementById('pipeline-canvas');
\* if (!canvas) return;      (initInteractivePipelineCanvas)
canvasFound == canvasPresent

\* window 'load' handler -> initializeAnimations() ->
\* initInteractivePipelineCanvas()
initializeAnimations ==
    /\ initialized' = TRUE
    /\ IF canvasFound /\ ~reducedMotion
       THEN \E starts \in [1..tracked -> 0..(NumNodes - 2)] :
            LET created == [i \in 1..tracked |-> newParticle(starts[i])]
                s == animate([Loops EXCEPT !.particles = created])
            IN  /\ SetLoops(s)
                /\ listeners' = listeners \cup
                       {"resize", "mousemove", "click", "mouseleave"}
                /\ cleanupRegistry' = <<"resize", "observer", "mousemove">>
                /\ cleanupRuns' = <<0, 0, 0>>
                /\ observing' = TRUE
                /\ ioQueue' = <<canvasIntersecting>>
                /\ lastFrame' = "gatedSync"
       ELSE /\ UNCHANGED <<frames, isCanvasVisible, animationFrameId,
                           animationFrame, particles, listeners,
                           cleanupRegistry,
                           cleanupRuns, observing, ioQueue>>
            /\ lastFrame' = "none"
    /\ UNCHANGED <<tracked, reducedMotion, canvasPresent, canvasIntersecting, domReady,
                   unloaded, hoveredNode, resizeThrottle, moveThrottle,
                   lastReport, tornDown>>

\* initializeAnimations() runs, once the document is parsed.
InitializeAnimations ==
    /\ domReady /\ ~initialized /\ ~unloaded
    /\ initializeAnimations
    /\ UNCHANGED <<registryVars, counterVars, revealVars, utilVars>>

\* The page scrolls: the canvas enters or leaves the viewport and the
\* browser queues an entry for canvasObserver.
scrollCanvas(b) ==
    /\ canvasIntersecting' = b
    /\ ioQueue' = IF observing THEN Append(ioQueue, b) ELSE ioQueue

CanvasScroll ==
    /\ canvasPresent /\ ~unloaded
    /\ Len(ioQueue) < MaxEntries
    /\ \E b \in BOOLEAN : scrollCanvas(b)
    /\ lastFrame' = "none"
    /\ UNCHANGED <<tracked, reducedMotion, canvasPresent, domReady, initialized,
                   unloaded, frames, listeners, isCanvasVisible,
                   animationFrameId, hoveredNode, observing, resizeThrottle,
                   moveThrottle, cleanupRegistry, cleanupRuns, animationFrame,
                   lastReport, tornDown>>
    /\ UNCHANGED <<particles, registryVars, counterVars, revealVars, utilVars>>

\* The browser delivers the queued entries to canvasObserver's callback.
ObserverReport ==
    /\ ioQueue # <<>> /\ ~unloaded
    /\ LET s == canvasObserverCallback(Loops, ioQueue)
       IN  /\ SetLoops(s)
           /\ lastFrame' = IF s.drew THEN "gatedSync" ELSE "none"
    /\ ioQueue' = <<>>
    /\ lastReport' =
           [seen |-> TRUE, isIntersecting |-> ioQueue[Len(ioQueue)],
            kept |-> /\ GatedPending # {}
                     /\ \A i \in DOMAIN ioQueue : ioQueue[i]]
    /\ UNCHANGED <<tracked, reducedMotion, canvasPresent, canvasIntersecting, domReady,
                   initialized, unloaded, listeners, hoveredNode, observing,
                   resizeThrottle, moveThrottle, cleanupRegistry, cleanupRuns,
                   tornDown>>
    /\ UNCHANGED <<registryVars, counterVars, revealVars, utilVars>>

\* The display refresh runs a pending frame callback of the gated loop.
GatedFrame ==
    /\ ~unloaded
    /\ \E f \in frames :
        /\ f.loop = "gated"
        /\ LET s == animate([Loops EXCEPT !.frames = frames \ {f}])
           IN  /\ SetLoops(s)
               /\ lastFrame' = IF s.drew THEN "gatedFrame"
                                         ELSE "gatedFrameSkipped"
    /\ UNCHANGED <<tracked, reducedMotion, canvasPresent, canvasIntersecting, domReady,
                   initialized, unloaded, listeners, hoveredNode, observing,
                   ioQueue, resizeThrottle, moveThrottle, cleanupRegistry,
                   cleanupRuns, lastReport, tornDown>>
    /\ UNCHANGED <<registryVars, counterVars, revealVars, utilVars>>

\* The display refresh runs a pending frame callback of the gated loop and
\* the callback throws while it updates or draws.
GatedFrameThrows ==
    /\ ~unloaded
    /\ isCanvasVisible
    /\ \E f \in frames, k \in 0..Len(particles) :
        /\ f.loop = "gated"
        /\ SetLoops(animateThrows([Loops EXCEPT !.frames = frames \ {f}], k))
    /\ lastFrame' = "gatedFrameThrew"
    /\ UNCHANGED <<tracked, reducedMotion, canvasPresent, canvasIntersecting,
                   domReady, initialized, unloaded, listeners, hoveredNode,
                   observing, ioQueue, resizeThrottle, moveThrottle,
                   cleanupRegistry, cleanupRuns, lastReport, tornDown>>
    /\ UNCHANGED <<registryVars, counterVars, revealVars, utilVars>>

\* The display refresh runs a pending frame callback of the ungated loop.
UngatedFrame ==
    /\ ~unloaded
    /\ \E f \in frames :
        /\ f.loop = "ungated"
        /\ LET s == animateUngated([Loops EXCEPT !.frames = frames \ {f}])
           IN  SetLoops(s)
    /\ lastFrame' = "ungatedFrame"
    /\ UNCHANGED <<tracked, reducedMotion, canvasPresent, canvasIntersecting, domReady,
                   initialized, unloaded, listeners, hoveredNode, observing,
                   ioQueue, resizeThrottle, moveThrottle, cleanupRegistry,
                   cleanupRuns, lastReport, tornDown>>
    /\ UNCHANGED <<registryVars, counterVars, revealVars, utilVars>>

\* window 'resize': resizeCanvas of the ungated loop runs at once, the gated
\* loop's resizeCanvas goes through its throttle. Neither touches the loops.
Resize ==
    /\ ~unloaded
    /\ listeners \cap {"resize", "resize2"} # {}
    /\ resizeThrottle' = IF "resize" \in listeners
                         THEN throttleCall(resizeThrottle, NoNode).t
                         ELSE resizeThrottle
    /\ lastFrame' = "none"
    /\ UNCHANGED <<tracked, reducedMotion, canvasPresent, canvasIntersecting, domReady,
                   initialized, unloaded, frames, listeners, isCanvasVisible,
                   animationFrameId, hoveredNode, observing, ioQueue,
                   moveThrottle, cleanupRegistry, cleanupRuns, animationFrame,
                   lastReport, tornDown>>
    /\ UNCHANGED <<particles, registryVars, counterVars, revealVars, utilVars>>

\* The throttle's timer of resizeHandler fires (resizeCanvas may run).
ResizeTimer ==
    /\ ~unloaded
    /\ resizeThrottle.timer
    /\ resizeThrottle' = [resizeThrottle EXCEPT !.timer = FALSE]
    /\ lastFrame' = "none"
    /\ UNCHANGED <<tracked, reducedMotion, canvasPresent, canvasIntersecting, domReady,
                   initialized, unloaded, frames, listeners, isCanvasVisible,
                   animationFrameId, hoveredNode, observing, ioQueue,
                   moveThrottle, cleanupRegistry, cleanupRuns, animationFrame,
                   lastReport, tornDown>>
    /\ UNCHANGED <<particles, registryVars, counterVars, revealVars, utilVars>>

\* ------------------------------------------------------------------------
\* The pointer handlers of the canvas and #pipeline-tooltip
\* ------------------------------------------------------------------------
TooltipStart ==
    /\ tooltipDisplay = ""
    /\ tooltipOpacity = ""
    /\ tooltipTimers = 0
    /\ tipLastEvent = "none"

TooltipInit == tooltipPresent = TRUE /\ TooltipStart

TooltipIdle == tooltipPresent = FALSE /\ TooltipStart

\* hoveredNode and the tooltip, as the handlers see them
Hover ==
    [hoveredNode |-> hoveredNode, display |-> tooltipDisplay,
     opacity |-> tooltipOpacity, timers |-> tooltipTimers]

SetHover(h) ==
    /\ hoveredNode' = h.hoveredNode
    /\ tooltipDisplay' = h.display
    /\ tooltipOpacity' = h.opacity
    /\ tooltipTimers' = h.timers

\* function showPipelineTooltip(node, x, y)
showPipelineTooltip(h) ==
    IF ~tooltipPresent THEN h
    ELSE [h EXCEPT !.display = "block", !.opacity = "1"]

\* function hidePipelineTooltip(): opacity '0' and a 200 ms timer
hidePipelineTooltip(h) ==
    IF ~tooltipPresent THEN h
    ELSE [h EXCEPT !.opacity = "0", !.timers = @ + 1]

\* The function wrapped by handleMouseMove, for a pointer within 35px of
\* node n (NoNode: of no node).
handleMouseMove(h, n) ==
    IF n # NoNode
    THEN showPipelineTooltip([h EXCEPT !.hoveredNode = n])
    ELSE hidePipelineTooltip([h EXCEPT !.hoveredNode = NoNode])

\* the 'mouseleave' listener
mouseleave(h) == hidePipelineTooltip([h EXCEPT !.hoveredNode = NoNode])

\* canvas 'mousemove' -> handleMouseMove (throttled); n is the node the
\* pointer is within 35px of, or NoNode.
MouseMove ==
    /\ ~unloaded
    /\ "mousemove" \in listeners
    /\ tooltipTimers < MaxHideTimers
    /\ \E n \in HoverTargets :
        LET r == throttleCall(moveThrottle, n)
        IN  /\ moveThrottle' = r.t
            /\ SetHover(IF r.runNow THEN handleMouseMove(Hover, n) ELSE Hover)
    /\ tipLastEvent' = IF tooltipPresent THEN "move" ELSE tipLastEvent
    /\ lastFrame' = "none"
    /\ UNCHANGED <<tracked, reducedMotion, canvasPresent, canvasIntersecting, domReady,
                   initialized, unloaded, frames, listeners, isCanvasVisible,
                   animationFrameId, observing, ioQueue, resizeThrottle,
                   cleanupRegistry, cleanupRuns, animationFrame, lastReport,
                   tornDown>>
    /\ UNCHANGED <<particles, registryVars, counterVars, revealVars>>
    /\ UNCHANGED <<tooltipPresent, restPageTooltip>>

\* The throttle's timer of handleMouseMove fires; the elapsed-time test
\* decides whether the handler runs with the saved event.
MoveTimer ==
    /\ ~unloaded
    /\ moveThrottle.timer
    /\ moveThrottle' = [moveThrottle EXCEPT !.timer = FALSE, !.arg = NoNode]
    /\ tooltipTimers < MaxHideTimers
    /\ \E runs \in BOOLEAN :
        SetHover(IF runs THEN handleMouseMove(Hover, moveThrottle.arg)
                         ELSE Hover)
    /\ UNCHANGED tipLastEvent
    /\ lastFrame' = "none"
    /\ UNCHANGED <<tracked, reducedMotion, canvasPresent, canvasIntersecting, domReady,
                   initialized, unloaded, frames, listeners, isCanvasVisible,
                   animationFrameId, observing, ioQueue, resizeThrottle,
                   cleanupRegistry, cleanupRuns, animationFrame, lastReport,
                   tornDown>>
    /\ UNCHANGED <<particles, registryVars, counterVars, revealVars>>
    /\ UNCHANGED <<tooltipPresent, restPageTooltip>>

\* canvas 'mouseleave'
MouseLeave ==
    /\ ~unloaded
    /\ "mouseleave" \in listeners
    /\ tooltipTimers < MaxHideTimers
    /\ SetHover(mouseleave(Hover))
    /\ tipLastEvent' = IF tooltipPresent THEN "leave" ELSE tipLastEvent
    /\ lastFrame' = "none"
    /\ UNCHANGED <<tracked, reducedMotion, canvasPresent, canvasIntersecting, domReady,
                   initialized, unloaded, frames, listeners, isCanvasVisible,
                   animationFrameId, observing, ioQueue, resizeThrottle,
                   moveThrottle, cleanupRegistry, cleanupRuns, animationFrame,
                   lastReport, tornDown>>
    /\ UNCHANGED <<particles, registryVars, counterVars, revealVars>>
    /\ UNCHANGED <<tooltipPresent, restPageTooltip>>

\* canvas 'click': on a hovered node the page scrolls to the node's section,
\* which may move the canvas into or out of the viewport.
Click ==
    /\ ~unloaded
    /\ "click" \in listeners
    /\ hoveredNode # NoNode
    /\ Len(ioQueue) < MaxEntries
    /\ \E b \in BOOLEAN : scrollCanvas(b)
    /\ lastFrame' = "none"
    /\ UNCHANGED <<tracked, reducedMotion, canvasPresent, domReady, initialized,
                   unloaded, frames, listeners, isCanvasVisible,
                   animationFrameId, hoveredNode, observing, resizeThrottle,
                   moveThrottle, cleanupRegistry, cleanupRuns, animationFrame,
                   lastReport, tornDown>>
    /\ UNCHANGED <<particles, registryVars, counterVars, revealVars, utilVars>>

\* window 'beforeunload': the only handler is the one initInteractivePipeline
\* registered, cancelAnimationFrame(animationFrame). Nothing iterates
\* cleanupRegistry.
BeforeUnload ==
    /\ ~unloaded
    /\ unloaded' = TRUE
    /\ frames' = IF "beforeunload" \in listeners
                 THEN cancelAnimationFrame(frames, animationFrame)
                 ELSE frames
    /\ lastFrame' = "none"
    /\ UNCHANGED <<tracked, reducedMotion, canvasPresent, canvasIntersecting, domReady,
                   initialized, listeners, isCanvasVisible, animationFrameId,
                   hoveredNode, observing, ioQueue, resizeThrottle,
                   moveThrottle, cleanupRegistry, cleanupRuns, animationFrame,
                   lastReport, tornDown>>
    /\ UNCHANGED <<particles, registryVars, counterVars, revealVars, utilVars>>

\* Teardown driver: calls every closure of cleanupRegistry once, in order.
\* The page script has no such caller; only SpecTeardown takes this step.
RunCleanupRegistry ==
    /\ ~unloaded /\ ~tornDown
    /\ cleanupRegistry # <<>>
    /\ LET c == runCleanupClosures(cleanupRegistry, CleanupState)
       IN  /\ frames' = c.frames
           /\ listeners' = c.listeners
           /\ observing' = c.observing
           /\ ioQueue' \in DisconnectQueue(c.ioQueue)
    /\ cleanupRuns' = [i \in DOMAIN cleanupRuns |-> cleanupRuns[i] + 1]
    /\ tornDown' = TRUE
    /\ lastFrame' = "none"
    /\ UNCHANGED <<tracked, reducedMotion, canvasPresent, canvasIntersecting, domReady,
                   initialized, unloaded, isCanvasVisible, animationFrameId,
                   hoveredNode, resizeThrottle, moveThrottle, cleanupRegistry,
                   animationFrame, lastReport>>
    /\ UNCHANGED <<particles, registryVars, counterVars, revealVars, utilVars>>

Next ==
    \/ DOMContentLoaded
    \/ InitializeAnimations
    \/ CanvasScroll
    \/ ObserverReport
    \/ GatedFrame
    \/ UngatedFrame
    \/ Resize
    \/ ResizeTimer
    \/ MouseMove
    \/ MoveTimer
    \/ MouseLeave
    \/ Click
    \/ BeforeUnload

NextTeardown ==
    \/ Next
    \/ RunCleanupRegistry

\* The 200 ms timer of hidePipelineTooltip fires.
TooltipHideTimer ==
    /\ tooltipTimers > 0
    /\ tooltipTimers' = tooltipTimers - 1
    /\ tooltipDisplay' = "none"
    /\ UNCHANGED <<tooltipPresent, tooltipOpacity, tipLastEvent>>
    /\ UNCHANGED exceptPageTooltip

\* The set-up of the canvas, its pointer handlers and the tooltip's timers.
NextTooltip ==
    \/ DOMContentLoaded
    \/ InitializeAnimations
    \/ MouseMove
    \/ MoveTimer
    \/ MouseLeave
    \/ TooltipHideTimer

\* The steps that run the loops or change what the observer reports. The
\* resize and pointer handlers neither call animate() nor touch `particles`
\* (Click scrolls the page as CanvasScroll does); SpecParticles leaves them
\* to Spec.
NextParticles ==
    \/ DOMContentLoaded
    \/ InitializeAnimations
    \/ CanvasScroll
    \/ ObserverReport
    \/ GatedFrame
    \/ UngatedFrame
    \/ BeforeUnload

\* The same steps, and frame callbacks of the gated loop that throw.
NextFault ==
    \/ NextParticles
    \/ GatedFrameThrows

\* ------------------------------------------------------------------------
\* utils.js createCleanupRegistry
\* ------------------------------------------------------------------------
RegistryInit ==
    /\ cleanups = <<>>
    /\ regThrows = <<>>
    /\ regInvoked = <<>>
    /\ regLast = [calls |-> 0, expected |-> <<>>, order |-> <<>>,
                  threw |-> FALSE]
    /\ regCalls = 0

\* cleanups.forEach(fn => fn()): the closures are called in array order; a
\* closure that throws ends the iteration and the exception leaves forEach.
\* Result: the ids called, in order, and whether an exception escaped.
RECURSIVE forEachCleanup(_, _, _)
forEachCleanup(arr, throws, called) ==
    IF arr = <<>>
    THEN [order |-> called, threw |-> FALSE]
    ELSE IF throws[Head(arr)]
    THEN [order |-> Append(called, Head(arr)), threw |-> TRUE]
    ELSE forEachCleanup(Tail(arr), throws, Append(called, Head(arr)))

\* cleanup() { cleanups.forEach(fn => fn()); cleanups.length = 0; }
\* Result: the call's record and the array afterwards.
registryCleanup(arr, throws) ==
    LET r == forEachCleanup(arr, throws, <<>>)
    IN  [order |-> r.order, threw |-> r.threw,
         cleanups |-> IF r.threw THEN arr ELSE <<>>]

CountIn(seq, x) == Cardinality({i \in DOMAIN seq : seq[i] = x})

\* registry.add(element, event, handler, options); throws: whether
\* element.removeEventListener will throw when the closure is called
RegistryAdd ==
    /\ Len(regThrows) < MaxCleanups
    /\ \E throws \in BOOLEAN :
        regThrows' = Append(regThrows, throws)
    /\ regInvoked' = Append(regInvoked, 0)
    /\ cleanups' = Append(cleanups, Len(regThrows) + 1)
    /\ regCalls' = 0
    /\ UNCHANGED regLast
    /\ UNCHANGED <<canvasVars, counterVars, revealVars, utilVars>>

\* registry.cleanup()
RegistryCleanup ==
    /\ regCalls < MaxCleanupCalls
    /\ LET r == registryCleanup(cleanups, regThrows)
       IN  /\ cleanups' = r.cleanups
           /\ regInvoked' = [id \in DOMAIN regInvoked |->
                                regInvoked[id] + CountIn(r.order, id)]
           /\ regLast' = [calls |-> regLast.calls + 1, expected |-> cleanups,
                          order |-> r.order, threw |-> r.threw]
    /\ regCalls' = regCalls + 1
    /\ UNCHANGED regThrows
    /\ UNCHANGED <<canvasVars, counterVars, revealVars, utilVars>>

NextRegistry ==
    \/ RegistryAdd
    \/ RegistryCleanup

\* ------------------------------------------------------------------------
\* initMetricCounters / initImpactCounters
\* ------------------------------------------------------------------------
Sections == {"metrics", "impact"}
CounterIds == 1..NumCounters

CountersInit ==
    /\ countersReady = FALSE
    /\ sectionPresent \in [Sections -> BOOLEAN]
    /\ sectionVisible \in [Sections -> BOOLEAN]
    /\ \A s \in Sections : sectionVisible[s] => sectionPresent[s]
    /\ animated = [s \in Sections |-> FALSE]
    /\ counterStarts = [s \in Sections |-> [e \in CounterIds |-> 0]]
    /\ counterRunning = [s \in Sections |-> [e \in CounterIds |-> 0]]
    /\ checkedVisible = [s \in Sections |-> FALSE]

CountersIdle ==
    /\ CountersInit
    /\ \A s \in Sections : ~sectionPresent[s]

\* Mutant: the section is found visible but the flag is not set.
checkMetrics_flagNotSet(present, isVisible, flag) ==
    IF ~present \/ flag
    THEN [animated |-> flag, fire |-> FALSE]
    ELSE [animated |-> flag, fire |-> isVisible]

\* function checkMetrics(): flag is `animated`; fire: animateCounter is
\* called for every metric element
checkMetrics(present, isVisible, flag) ==
    IF ~present \/ flag
    THEN [animated |-> flag, fire |-> FALSE]
    ELSE IF isVisible
    THEN [animated |-> TRUE, fire |-> TRUE]
    ELSE [animated |-> flag, fire |-> FALSE]

\* function checkImpact(): flag is `impactAnimated`
checkImpact(present, isVisible, flag) ==
    IF ~present \/ flag
    THEN [animated |-> flag, fire |-> FALSE]
    ELSE IF isVisible
    THEN [animated |-> TRUE, fire |-> TRUE]
    ELSE [animated |-> flag, fire |-> FALSE]

checkSection(s, visible) ==
    IF s = "metrics"
    THEN checkMetrics(sectionPresent[s], visible[s], animated[s])
    ELSE checkImpact(sectionPresent[s], visible[s], animated[s])

Bump(n, cap) == IF n < cap THEN n + 1 ELSE cap

\* Both scroll handlers (and both initial checks) run with the sections'
\* visibility `visible`.
RunChecks(visible) ==
    /\ animated' = [s \in Sections |-> checkSection(s, visible).animated]
    /\ counterStarts' =
           [s \in Sections |-> [e \in CounterIds |->
               IF checkSection(s, visible).fire
               THEN Bump(counterStarts[s][e], StartCap)
               ELSE counterStarts[s][e]]]
    /\ counterRunning' =
           [s \in Sections |-> [e \in CounterIds |->
               IF checkSection(s, visible).fire
               THEN Bump(counterRunning[s][e], StartCap)
               ELSE counterRunning[s][e]]]
    /\ checkedVisible' =
           [s \in Sections |->
               checkedVisible[s] \/ (sectionPresent[s] /\ visible[s])]

\* initializeAnimations(): initMetricCounters() and initImpactCounters()
\* register their scroll listeners and run the check once.
InitCounters ==
    /\ ~countersReady
    /\ countersReady' = TRUE
    /\ RunChecks(sectionVisible)
    /\ UNCHANGED <<sectionPresent, sectionVisible>>
    /\ UNCHANGED <<canvasVars, registryVars, revealVars, utilVars>>

\* window 'scroll': the sections move, then checkMetrics and checkImpact run
\* if they are registered.
Scroll ==
    /\ \E v \in [Sections -> BOOLEAN] :
        /\ \A s \in Sections : v[s] => sectionPresent[s]
        /\ sectionVisible' = v
        /\ IF countersReady
           THEN RunChecks(v)
           ELSE UNCHANGED <<animated, counterStarts, counterRunning,
                            checkedVisible>>
    /\ UNCHANGED <<countersReady, sectionPresent>>
    /\ UNCHANGED <<canvasVars, registryVars, revealVars, utilVars>>

\* An animateCounter interval reaches its target and clears itself.
CounterDone ==
    /\ \E s \in Sections, e \in CounterIds :
        /\ counterRunning[s][e] > 0
        /\ counterRunning' = [counterRunning EXCEPT ![s][e] = @ - 1]
    /\ UNCHANGED <<countersReady, sectionPresent, sectionVisible, animated,
                   counterStarts, checkedVisible>>
    /\ UNCHANGED <<canvasVars, registryVars, revealVars, utilVars>>

NextCounters ==
    \/ InitCounters
    \/ Scroll
    \/ CounterDone

\* ------------------------------------------------------------------------
\* initCertificationAnimations / initSmoothReveals / initTimeline
\* ------------------------------------------------------------------------
Observers == {"cert", "smooth", "timeline"}
RevealEls == 1..NumRevealEls

RevealInit ==
    /\ revealReady = FALSE
    /\ observed = [o \in Observers |-> {}]
    /\ revealScheduled = [o \in Observers |-> [e \in RevealEls |-> 0]]
    /\ revealTimer = [o \in Observers |-> [e \in RevealEls |-> 0]]
    /\ revealed = [o \in Observers |-> [e \in RevealEls |-> FALSE]]

\* One element as an observer callback sees it.
RevealEl(o, e) ==
    [observed |-> e \in observed[o], scheduled |-> revealScheduled[o][e],
     timers |-> revealTimer[o][e], revealed |-> revealed[o][e]]

\* initCertificationAnimations: entries.forEach((entry, index) => ...) body
certEntry(r, isIntersecting) ==
    IF isIntersecting
    THEN [r EXCEPT !.scheduled = @ + 1, !.timers = @ + 1]
    ELSE r

\* initSmoothReveals: entries.forEach((entry, index) => ...) body
smoothEntry(r, isIntersecting) ==
    IF isIntersecting
    THEN [r EXCEPT !.scheduled = @ + 1, !.timers = @ + 1]
    ELSE r

\* initTimeline: entries.forEach(entry => ...) body, which reveals at once
timelineEntry(r, isIntersecting) ==
    IF isIntersecting
    THEN [r EXCEPT !.scheduled = @ + 1, !.revealed = TRUE]
    ELSE r

revealEntry(o, r, isIntersecting) ==
    CASE o = "cert"     -> certEntry(r, isIntersecting)
      [] o = "smooth"   -> smoothEntry(r, isIntersecting)
      [] o = "timeline" -> timelineEntry(r, isIntersecting)

\* initializeAnimations(): the three init functions create their observers
\* and observe every element.
InitReveals ==
    /\ ~revealReady
    /\ revealReady' = TRUE
    /\ observed' = [o \in Observers |-> RevealEls]
    /\ UNCHANGED <<revealScheduled, revealTimer, revealed>>
    /\ UNCHANGED <<canvasVars, registryVars, counterVars, utilVars>>

\* The browser calls one observer's callback with entries for some of the
\* elements it observes; entries[e] is entry.isIntersecting.
RevealReport ==
    /\ revealReady
    /\ \E o \in Observers :
       \E targets \in (SUBSET observed[o]) \ {{}} :
       \E entries \in [targets -> BOOLEAN] :
        /\ \A e \in targets :
               entries[e] => revealScheduled[o][e] < RevealCap
        /\ LET after(e) == IF e \in targets
                           THEN revealEntry(o, RevealEl(o, e), entries[e])
                           ELSE RevealEl(o, e)
           IN  /\ observed' = [observed EXCEPT
                       ![o] = {e \in RevealEls : after(e).observed}]
               /\ revealScheduled' = [revealScheduled EXCEPT
                       ![o] = [e \in RevealEls |-> after(e).scheduled]]
               /\ revealTimer' = [revealTimer EXCEPT
                       ![o] = [e \in RevealEls |-> after(e).timers]]
               /\ revealed' = [revealed EXCEPT
                       ![o] = [e \in RevealEls |-> after(e).revealed]]
    /\ UNCHANGED revealReady
    /\ UNCHANGED <<canvasVars, registryVars, counterVars, utilVars>>

\* A reveal timer (setTimeout(..., index * 100)) fires.
RevealTimerFire ==
    /\ \E o \in Observers, e \in RevealEls :
        /\ revealTimer[o][e] > 0
        /\ revealTimer' = [revealTimer EXCEPT ![o][e] = @ - 1]
        /\ revealed' = [revealed EXCEPT ![o][e] = TRUE]
    /\ UNCHANGED <<revealReady, observed, revealScheduled>>
    /\ UNCHANGED <<canvasVars, registryVars, counterVars, utilVars>>

NextReveal ==
    \/ InitReveals
    \/ RevealReport
    \/ RevealTimerFire

\* ------------------------------------------------------------------------
\* Utils.isMobileDevice / Utils.isLowEndDevice and the particle count
\* ------------------------------------------------------------------------

\* navigator.deviceMemory is one of 0.25, 0.5, 1, 2, 4, 8 (GiB) or undefined;
\* the model counts it in quarters of a GiB.
MemoryHints == {0, 1, 2, 4, 8, 16, 32}
\* viewport widths on both sides of the 768 px breakpoint
Widths == {320, 767, 768, 1440}

DeviceInit ==
    /\ hardwareConcurrency \in 0..MaxCores
    /\ deviceMemory \in MemoryHints
    /\ innerWidth \in Widths
    /\ deviceProbed = FALSE
    /\ isMobile = FALSE
    /\ isLowEnd = FALSE
    /\ particleCount = 0

DeviceIdle ==
    /\ DeviceInit
    /\ hardwareConcurrency = 0 /\ deviceMemory = 0 /\ innerWidth = 1440

\* JavaScript `x || fallback` on a number: 0 and undefined are falsy
orDefault(x, fallback) == IF x = 0 THEN fallback ELSE x

\* Utils.isMobileDevice()
isMobileDevice(width) == width < 768

\* Mutant: a device is low tier only when both hints are low.
isLowEndDevice_bothHints(cores, memoryQuarters) ==
    LET c == orDefault(cores, 2)
        m == orDefault(memoryQuarters, 4 * 4)
    IN  c <= 4 /\ m <= 4 * 4

\* Utils.isLowEndDevice(): cores <= 4 || memory <= 4, memory in GiB
isLowEndDevice(cores, memoryQuarters) ==
    LET c == orDefault(cores, 2)
        m == orDefault(memoryQuarters, 4 * 4)
    IN  c <= 4 \/ m <= 4 * 4

\* const particleCount = isLowEnd ? 5 : (isMobile ? 10 : 20);
particleCountFor(lowEnd, mobile) ==
    IF lowEnd THEN 5 ELSE IF mobile THEN 10 ELSE 20

\* initInteractivePipelineCanvas, lines 128-130
DeviceProbe ==
    /\ ~deviceProbed
    /\ deviceProbed' = TRUE
    /\ isMobile' = isMobileDevice(innerWidth)
    /\ isLowEnd' = isLowEndDevice(hardwareConcurrency, deviceMemory)
    /\ particleCount' =
           particleCountFor(isLowEndDevice(hardwareConcurrency, deviceMemory),
                            isMobileDevice(innerWidth))
    /\ UNCHANGED <<hardwareConcurrency, deviceMemory, innerWidth>>
    /\ UNCHANGED exceptDevice

\* The window is resized after the count was taken: the count stays.
DeviceResize ==
    /\ \E w \in Widths : innerWidth' = w
    /\ UNCHANGED <<hardwareConcurrency, deviceMemory, deviceProbed, isMobile,
                   isLowEnd, particleCount>>
    /\ UNCHANGED exceptDevice

NextDevice ==
    \/ DeviceProbe
    \/ DeviceResize

\* ------------------------------------------------------------------------
\* The window 'scroll' listeners: initNavigation, initMetricCounters,
\* initImpactCounters, initGridBackground
\* ------------------------------------------------------------------------
ScrollHandlers == {"updateNav", "checkMetrics", "checkImpact", "gridParallax"}

\* Times between two steps of the clock: one display frame, one window.
ScrollGaps == {16, ScrollWindow}

ScrollInit ==
    /\ scrollNow = 1
    /\ gridPresent \in BOOLEAN
    /\ scrollInstalled = {}
    /\ lastScrollAt = 0
    /\ lastExecAt = [h \in ScrollHandlers |-> 0]
    /\ tooSoon = [h \in ScrollHandlers |-> FALSE]

ScrollIdle == ScrollInit /\ ~gridPresent

\* window.addEventListener('scroll', handler): the listener is the handler
\* itself, so the handler executes on every event it is registered for.
scrollListener(h, at, last, flagged) ==
    [lastExecAt |-> at,
     tooSoon |-> flagged \/ (last # 0 /\ at - last < ScrollWindow)]

\* initializeAnimations(): initNavigation, initMetricCounters,
\* initGridBackground and initImpactCounters register their listeners.
InitScrollHandlers ==
    /\ scrollInstalled = {}
    /\ scrollInstalled' =
           {"updateNav", "checkMetrics", "checkImpact"}
               \cup (IF gridPresent THEN {"gridParallax"} ELSE {})
    /\ UNCHANGED <<scrollNow, gridPresent, lastScrollAt, lastExecAt, tooSoon>>
    /\ UNCHANGED exceptScroll

\* Time passes.
ScrollTick ==
    /\ \E d \in ScrollGaps :
        /\ scrollNow + d <= MaxScrollTime
        /\ scrollNow' = scrollNow + d
    /\ UNCHANGED <<gridPresent, scrollInstalled, lastScrollAt, lastExecAt,
                   tooSoon>>
    /\ UNCHANGED exceptScroll

\* The browser dispatches a 'scroll' event, at most one per display frame.
ScrollEvent ==
    /\ lastScrollAt # scrollNow
    /\ lastScrollAt' = scrollNow
    /\ lastExecAt' = [h \in ScrollHandlers |->
           IF h \in scrollInstalled
           THEN scrollListener(h, scrollNow, lastExecAt[h], tooSoon[h]).lastExecAt
           ELSE lastExecAt[h]]
    /\ tooSoon' = [h \in ScrollHandlers |->
           IF h \in scrollInstalled
           THEN scrollListener(h, scrollNow, lastExecAt[h], tooSoon[h]).tooSoon
           ELSE tooSoon[h]]
    /\ UNCHANGED <<scrollNow, gridPresent, scrollInstalled>>
    /\ UNCHANGED exceptScroll

NextScroll ==
    \/ InitScrollHandlers
    \/ ScrollTick
    \/ ScrollEvent

\* ------------------------------------------------------------------------
\* utils.js throttle (the same code as Utils.throttle of pipeline-main.js)
\* ------------------------------------------------------------------------
NoTimer == [pending |-> FALSE, due |-> 0, args |-> 0]

\* setTimeout(callback, ms) at time `at`: the callback runs once, at some
\* time not before at + ms; a negative ms counts as 0.
setTimeout(at, ms, args) ==
    [pending |-> TRUE, due |-> at + (IF ms > 0 THEN ms ELSE 0), args |-> args]

ClockInit == now = 1

ThrottleStart ==
    /\ thDelay \in 1..MaxDelay
    /\ thLastRan = 0
    /\ thTimer = NoTimer
    /\ thInvokedAt = 0
    /\ thInvocations = 0
    /\ thTooSoon = FALSE
    /\ thFirstCall = "none"

ThrottleIdle == ThrottleStart /\ thDelay = 1

\* The closure of one throttled function.
Throttled == [lastRan |-> thLastRan, timer |-> thTimer, invoked |-> FALSE]

\* Mutant: the first branch does not record when func ran.
throttled_lastRanNotSet(t, at, delay, args) ==
    IF t.lastRan = 0
    THEN [t EXCEPT !.invoked = TRUE]
    ELSE [t EXCEPT !.timer = setTimeout(at, delay - (at - t.lastRan), args)]

\* the function returned by throttle(func, delay), called at time `at`;
\* invoked: func is applied during the call
throttled(t, at, delay, args) ==
    IF t.lastRan = 0
    THEN [t EXCEPT !.invoked = TRUE, !.lastRan = at]
    ELSE [t EXCEPT !.timer = setTimeout(at, delay - (at - t.lastRan), args)]

throttleTimeout_strictTest(t, at, delay) ==
    IF at - t.lastRan > delay
    THEN [t EXCEPT !.invoked = TRUE, !.lastRan = at, !.timer = NoTimer]
    ELSE [t EXCEPT !.timer = NoTimer]

\* the callback throttle passes to setTimeout, run at time `at`
throttleTimeout(t, at, delay) ==
    IF at - t.lastRan >= delay
    THEN [t EXCEPT !.invoked = TRUE, !.lastRan = at, !.timer = NoTimer]
    ELSE [t EXCEPT !.timer = NoTimer]

\* The closure after a step, with the record of func's invocations.
SetThrottled(t) ==
    /\ thLastRan' = t.lastRan
    /\ thTimer' = t.timer
    /\ thInvokedAt' = IF t.invoked THEN now ELSE thInvokedAt
    /\ thInvocations' = IF t.invoked THEN Bump(thInvocations, MaxTime)
                                      ELSE thInvocations
    /\ thTooSoon' = \/ thTooSoon
                    \/ /\ t.invoked /\ thInvokedAt # 0
                       /\ now - thInvokedAt < thDelay

\* Time passes.
Tick ==
    /\ now < MaxTime
    /\ now' = now + 1
    /\ UNCHANGED <<throttleVars, debounceVars>>
    /\ UNCHANGED exceptTimed

\* The throttled function is called.
ThrottledCall ==
    /\ \E args \in 1..NumArgs :
        LET t == throttled(Throttled, now, thDelay, args)
        IN  /\ SetThrottled(t)
            /\ thFirstCall' = IF thFirstCall # "none" THEN thFirstCall
                               ELSE IF t.invoked THEN "sync" ELSE "deferred"
    /\ UNCHANGED <<now, thDelay, debounceVars>>
    /\ UNCHANGED exceptTimed

\* The timer set by the throttled function runs its callback.
ThrottleTimer ==
    /\ thTimer.pending /\ now >= thTimer.due
    /\ SetThrottled(throttleTimeout(Throttled, now, thDelay))
    /\ UNCHANGED <<now, thDelay, thFirstCall, debounceVars>>
    /\ UNCHANGED exceptTimed

NextThrottle ==
    \/ Tick
    \/ ThrottledCall
    \/ ThrottleTimer

\* ------------------------------------------------------------------------
\* utils.js debounce
\* ------------------------------------------------------------------------
DebounceStart ==
    /\ dbDelay \in 1..MaxDelay
    /\ dbTimer = NoTimer
    /\ dbLastCallAt = 0
    /\ dbLastCallArgs = 0
    /\ dbBursts = 0
    /\ dbInvocations = 0
    /\ dbLost = 0
    /\ dbBadInvoke = FALSE

DebounceIdle == DebounceStart /\ dbDelay = 1

\* Mutant: a call made while the timer is pending keeps the arguments the
\* timer was set with.
debounced_keepsFirstArgs(timer, at, delay, args) ==
    setTimeout(at, delay, IF timer.pending THEN timer.args ELSE args)

\* the function returned by debounce(func, delay), called at time `at`:
\* clearTimeout(timeoutId) and setTimeout(() => func.apply(this, args), delay)
\* leave one timer, the new one
debounced(timer, at, delay, args) == setTimeout(at, delay, args)

\* The debounced function is called. A call that comes delay ms or more
\* after the previous one begins a new burst.
DebouncedCall ==
    /\ \E args \in 1..NumArgs :
        /\ dbTimer' = debounced(dbTimer, now, dbDelay, args)
        /\ dbLastCallArgs' = args
    /\ dbLastCallAt' = now
    /\ LET newBurst == dbLastCallAt = 0 \/ now - dbLastCallAt >= dbDelay
       IN  /\ dbBursts' = IF newBurst THEN Bump(dbBursts, MaxTime)
                                      ELSE dbBursts
           /\ dbLost' = IF newBurst /\ dbTimer.pending
                         THEN Bump(dbLost, MaxTime) ELSE dbLost
    /\ UNCHANGED <<dbDelay, dbInvocations, dbBadInvoke>>
    /\ UNCHANGED <<now, throttleVars>>
    /\ UNCHANGED exceptTimed

\* The timer set by the debounced function runs its callback:
\* func.apply(this, args)
DebounceTimer ==
    /\ dbTimer.pending /\ now >= dbTimer.due
    /\ dbTimer' = NoTimer
    /\ dbInvocations' = Bump(dbInvocations, MaxTime)
    /\ dbBadInvoke' = \/ dbBadInvoke
                      \/ now - dbLastCallAt < dbDelay
                      \/ dbTimer.args # dbLastCallArgs
    /\ UNCHANGED <<dbDelay, dbLastCallAt, dbLastCallArgs, dbBursts, dbLost>>
    /\ UNCHANGED <<now, throttleVars>>
    /\ UNCHANGED exceptTimed

NextDebounce ==
    \/ Tick
    \/ DebouncedCall
    \/ DebounceTimer

\* ------------------------------------------------------------------------
\* waitForResources (both implementations) and the window 'load' handler
\* ------------------------------------------------------------------------
Impls == {"inline", "utils"}
ImageIds == 1..NumImages

ResourcesInit ==
    /\ fontsReady \in BOOLEAN
    /\ images \in [ImageIds -> {"pending", "loaded", "broken"}]
    /\ wfr = [m \in Impls |->
                 [called |-> FALSE, imgs |-> [i \in ImageIds |-> "none"],
                  state |-> "pending"]]

LoadInit ==
    /\ loadingScreen \in BOOLEAN
    /\ mainContainer \in BOOLEAN
    /\ loadStage = "idle"
    /\ screenHidden = FALSE
    /\ mainShown = FALSE
    /\ initCalls = 0

LoadingIdle ==
    /\ ResourcesInit /\ LoadInit
    /\ fontsReady /\ \A i \in ImageIds : images[i] = "loaded"
    /\ ~loadingScreen /\ ~mainContainer

\* The promise made for one image when waitForResources is called:
\* if (img.complete) return Promise.resolve(); else a pending promise
\* (the same in both implementations). img.complete holds for a loaded and
\* for a broken image.
imagePromise(image) == IF image = "pending" THEN "pending" ELSE "resolved"

\* Mutant: the promise of the inline implementation has no onerror handler.
inlineImageEvent_noOnError(promise, event) ==
    IF promise = "pending" /\ event = "load" THEN "resolved" ELSE promise

\* pipeline-main.js: img.onload = resolve; img.onerror = resolve;
inlineImageEvent(promise, event) ==
    IF promise = "pending" THEN "resolved" ELSE promise

\* utils.js loadImage: img.onload = resolve; img.onerror = reject;
loadImageEvent(promise, event) ==
    IF promise = "pending"
    THEN IF event = "load" THEN "resolved" ELSE "rejected"
    ELSE promise

imageEvent(m, promise, event) ==
    IF m = "inline" THEN inlineImageEvent(promise, event)
                    ELSE loadImageEvent(promise, event)

\* Promise.all([document.fonts.ready, ...imagePromises]): rejected as soon
\* as one promise is rejected, fulfilled once all are fulfilled.
promiseAll(fonts, imgs) ==
    IF \E i \in DOMAIN imgs : imgs[i] = "rejected" THEN "rejected"
    ELSE IF fonts /\ \A i \in DOMAIN imgs : imgs[i] = "resolved"
    THEN "fulfilled"
    ELSE "pending"

\* try { await Promise.all(...) } catch (error) { console.warn(...) }
\* The async function returns after the await in either case; its promise,
\* once resolved, stays resolved.
awaitAll(state, fonts, imgs) ==
    IF state = "pending" /\ promiseAll(fonts, imgs) # "pending"
    THEN "resolved"
    ELSE state

\* waitForResources() is called.
waitForResources(w, fonts, imgStates) ==
    LET imgs == [i \in ImageIds |-> imagePromise(imgStates[i])]
    IN  [called |-> TRUE, imgs |-> imgs,
         state |-> awaitAll("pending", fonts, imgs)]

\* An image's load or error event reaches the handlers set on it.
wfrImageEvent(m, w, fonts, i, event) ==
    IF ~w.called THEN w
    ELSE LET imgs == [w.imgs EXCEPT ![i] = imageEvent(m, @, event)]
         IN  [w EXCEPT !.imgs = imgs, !.state = awaitAll(@, fonts, imgs)]

\* document.fonts.ready fulfils.
wfrFontsReady(w) ==
    IF ~w.called THEN w ELSE [w EXCEPT !.state = awaitAll(@, TRUE, w.imgs)]

\* The load handler goes on after `await Utils.waitForResources()`:
\* setTimeout(function() {...}, 300)
afterAwait(stage, inlineState) ==
    IF stage = "awaiting" /\ inlineState = "resolved" THEN "delay" ELSE stage

FontsReady ==
    /\ ~fontsReady
    /\ fontsReady' = TRUE
    /\ wfr' = [m \in Impls |-> wfrFontsReady(wfr[m])]
    /\ loadStage' = afterAwait(loadStage, wfrFontsReady(wfr["inline"]).state)
    /\ UNCHANGED <<images, loadingScreen, mainContainer, screenHidden,
                   mainShown, initCalls>>
    /\ UNCHANGED exceptLoading

\* A pending image finishes: it loads or it fails.
ImageFinish ==
    /\ \E i \in ImageIds, event \in {"load", "error"} :
        /\ images[i] = "pending"
        /\ images' = [images EXCEPT
                          ![i] = IF event = "load" THEN "loaded" ELSE "broken"]
        /\ wfr' = [m \in Impls |->
                      wfrImageEvent(m, wfr[m], fontsReady, i, event)]
        /\ loadStage' =
               afterAwait(loadStage,
                   wfrImageEvent("inline", wfr["inline"], fontsReady, i,
                                 event).state)
    /\ UNCHANGED <<fontsReady, loadingScreen, mainContainer, screenHidden,
                   mainShown, initCalls>>
    /\ UNCHANGED exceptLoading

\* Some module calls utils.js waitForResources().
UtilsWaitForResources ==
    /\ ~wfr["utils"].called
    /\ wfr' = [wfr EXCEPT
                  !["utils"] = waitForResources(@, fontsReady, images)]
    /\ UNCHANGED <<fontsReady, images>>
    /\ UNCHANGED loadVars
    /\ UNCHANGED exceptLoading

\* window 'load': await Utils.waitForResources()
WindowLoad ==
    /\ loadStage = "idle"
    /\ LET w == waitForResources(wfr["inline"], fontsReady, images)
       IN  /\ wfr' = [wfr EXCEPT !["inline"] = w]
           /\ loadStage' = afterAwait("awaiting", w.state)
    /\ UNCHANGED <<fontsReady, images, loadingScreen, mainContainer,
                   screenHidden, mainShown, initCalls>>
    /\ UNCHANGED exceptLoading

\* The 300 ms timer: with both elements present the screen fades and the
\* 500 ms timer is set.
LoadDelayTimer ==
    /\ loadStage = "delay"
    /\ loadStage' = IF loadingScreen /\ mainContainer THEN "fading"
                                                      ELSE "done"
    /\ UNCHANGED <<loadingScreen, mainContainer, screenHidden, mainShown,
                   initCalls>>
    /\ UNCHANGED resourceVars
    /\ UNCHANGED exceptLoading

\* The 500 ms timer: hide the screen, show the page, initializeAnimations().
LoadFadeTimer ==
    /\ loadStage = "fading"
    /\ loadStage' = "done"
    /\ screenHidden' = TRUE
    /\ mainShown' = TRUE
    /\ initCalls' = initCalls + 1
    /\ initializeAnimations
    /\ UNCHANGED <<loadingScreen, mainContainer>>
    /\ UNCHANGED resourceVars
    /\ UNCHANGED <<registryVars, counterVars, revealVars, deviceVars,
                   scrollVars, timedVars, radarVars, pageVars>>

NextLoading ==
    \/ FontsReady
    \/ ImageFinish
    \/ UtilsWaitForResources
    \/ WindowLoad
    \/ LoadDelayTimer
    \/ LoadFadeTimer

\* The browser settles document.fonts.ready, finishes every image it has
\* started to fetch, and runs due timers.
LoadingFairness ==
    /\ WF_vars(FontsReady)
    /\ WF_vars(ImageFinish)
    /\ WF_vars(LoadDelayTimer)
    /\ WF_vars(LoadFadeTimer)

\* ------------------------------------------------------------------------
\* initSkillRadarChart: the draw-in animation of the skill radar
\* ------------------------------------------------------------------------
\* progress starts at 0 and grows by 0.02 per frame in IEEE double
\* arithmetic; it is kept here as the number of additions made. The sums of
\* 1..49 additions are at most 0.98 (up to rounding), the sum of 50
\* additions is 1.0000000000000004: the 50th is the first to exceed 1.
RadarLastStep == 50

RadarInit ==
    /\ radarContainer \in BOOLEAN
    /\ radarIntersecting \in BOOLEAN
    /\ (~radarContainer => ~radarIntersecting)
    /\ radarReady = FALSE
    /\ radarObserving = FALSE
    /\ radarQueue = <<>>
    /\ radarLoops = <<>>

RadarIdle == RadarInit /\ ~radarContainer

\* progress <= 1
progressLE1(additions) == additions < RadarLastStep

\* const animate = () => { clearRect; drawRadarGrid(); drawSkillData(progress);
\*     progress += 0.02; if (progress <= 1) requestAnimationFrame(animate); }
radarAnimate(loop) ==
    [progress |-> loop.progress + 1,
     pending |-> progressLE1(loop.progress + 1)]

\* The body of the callback for one entry, on r = [observing, loops]:
\* if (entry.isIntersecting) { let progress = 0; ...; animate();
\*                             observer.disconnect(); }
radarEntry(r, isIntersecting) ==
    IF isIntersecting
    THEN [observing |-> FALSE,
          loops |-> Append(r.loops,
                           radarAnimate([progress |-> 0, pending |-> FALSE]))]
    ELSE r

\* entries.forEach(entry => {...})
RECURSIVE radarCallback(_, _)
radarCallback(r, entries) ==
    IF entries = <<>> THEN r
    ELSE radarCallback(radarEntry(r, Head(entries)), Tail(entries))

\* initSkillRadarChart(): without the container nothing is set up; with it
\* the observer is created and observes the container, which queues the
\* first entry.
InitSkillRadarChart ==
    /\ ~radarReady
    /\ radarReady' = TRUE
    /\ IF radarContainer
       THEN /\ radarObserving' = TRUE
            /\ radarQueue' = <<radarIntersecting>>
       ELSE UNCHANGED <<radarObserving, radarQueue>>
    /\ UNCHANGED <<radarContainer, radarIntersecting, radarLoops>>
    /\ UNCHANGED exceptRadar

\* The container crosses the 0.3 threshold; while it is observed an entry
\* is queued.
RadarScroll ==
    /\ radarContainer
    /\ radarObserving => Len(radarQueue) < MaxEntries
    /\ radarIntersecting' = ~radarIntersecting
    /\ radarQueue' = IF radarObserving
                     THEN Append(radarQueue, ~radarIntersecting)
                     ELSE radarQueue
    /\ UNCHANGED <<radarContainer, radarReady, radarObserving, radarLoops>>
    /\ UNCHANGED exceptRadar

\* The observer's callback runs with all the queued entries.
RadarNotify ==
    /\ radarQueue # <<>>
    /\ LET r == radarCallback([observing |-> radarObserving,
                               loops |-> radarLoops], radarQueue)
       IN  /\ radarObserving' = r.observing
           /\ radarLoops' = r.loops
    /\ radarQueue' = <<>>
    /\ UNCHANGED <<radarContainer, radarReady, radarIntersecting>>
    /\ UNCHANGED exceptRadar

\* An animation frame: every requested callback of the draw-in loops runs.
RadarFrame ==
    /\ \E i \in DOMAIN radarLoops : radarLoops[i].pending
    /\ radarLoops' = [i \in DOMAIN radarLoops |->
                         IF radarLoops[i].pending
                         THEN radarAnimate(radarLoops[i])
                         ELSE radarLoops[i]]
    /\ UNCHANGED <<radarContainer, radarReady, radarObserving,
                   radarIntersecting, radarQueue>>
    /\ UNCHANGED exceptRadar

NextRadar ==
    \/ InitSkillRadarChart
    \/ RadarScroll
    \/ RadarNotify
    \/ RadarFrame

\* ------------------------------------------------------------------------
\* initCollapsibleSections: roles toggles and 'Show More' buttons
\* ------------------------------------------------------------------------
RoleIds == 1..NumRoles
ListIds == 1..NumLists
\* list.scrollHeight in px: an empty list, a short one and a long one
Heights == {0, 40, 120}
\* style.maxHeight === '' (never set); a length is kept as its px number
Unset == -1
\* items shown without the button: index >= 3 is hidden
TopItems == 3

RoleStart(heading, list, scrollHeight) ==
    [heading |-> heading, list |-> list, scrollHeight |-> scrollHeight,
     button |-> FALSE, maxHeight |-> Unset, opacity |-> "",
     label |-> "", expanded |-> FALSE, clicks |-> 0]

ListStart(n) ==
    [display |-> [i \in 1..n |-> ""], button |-> FALSE, label |-> "",
     expanded |-> FALSE, clicks |-> 0]

CollapseInit ==
    /\ collapseReady = FALSE
    /\ roles \in [RoleIds ->
                    {RoleStart(h, l, IF l THEN sh ELSE 0) :
                        h \in BOOLEAN, l \in BOOLEAN, sh \in Heights}]
    /\ lists \in [ListIds -> {ListStart(n) : n \in 0..MaxItems}]

CollapseIdle ==
    /\ CollapseInit
    /\ \A s \in RoleIds : roles[s] = RoleStart(FALSE, FALSE, 0)
    /\ \A l \in ListIds : lists[l] = ListStart(0)

\* companyRoles.forEach(section => {...}): without an h4 nothing is done;
\* the button is inserted with 'Show Details'; the list, if any, gets
\* maxHeight '0' (read back as '0px') and opacity '0'.
initRoles(r) ==
    IF ~r.heading THEN r
    ELSE LET b == [r EXCEPT !.button = TRUE, !.label = "Show Details"]
         IN  IF b.list
             THEN [b EXCEPT !.maxHeight = 0, !.opacity = "0"]
             ELSE b

\* The click listener of a roles toggle button.
\* isExpanded = list.style.maxHeight !== '0px' && list.style.maxHeight !== ''
toggleDetails(r) ==
    IF ~r.list THEN r
    ELSE IF r.maxHeight # 0 /\ r.maxHeight # Unset
    THEN [r EXCEPT !.maxHeight = 0, !.opacity = "0",
                   !.label = "Show Details", !.expanded = FALSE]
    ELSE [r EXCEPT !.maxHeight = r.scrollHeight, !.opacity = "1",
                   !.label = "Hide Details", !.expanded = TRUE]

\* achievementLists.forEach(list => {...}): a list of at most 3 items is
\* left alone; otherwise the items of index >= 3 are hidden and the button
\* is inserted with 'Show More'.
initShowMore(l) ==
    IF Len(l.display) <= TopItems THEN l
    ELSE [l EXCEPT
            !.display = [i \in DOMAIN l.display |->
                            IF i - 1 >= TopItems THEN "none" ELSE l.display[i]],
            !.button = TRUE, !.label = "Show More"]

\* Mutant: the click shows the items but does not add the class.
showMore_classNotAdded(l) ==
    IF l.expanded
    THEN [l EXCEPT
            !.display = [i \in DOMAIN l.display |->
                            IF i - 1 >= TopItems THEN "none" ELSE l.display[i]],
            !.label = "Show More", !.expanded = FALSE]
    ELSE [l EXCEPT
            !.display = [i \in DOMAIN l.display |->
                            IF i - 1 >= TopItems THEN "list-item"
                                                ELSE l.display[i]],
            !.label = "Show Less"]

\* The click listener of a 'Show More' button.
\* isExpanded = this.classList.contains('expanded')
showMore(l) ==
    IF l.expanded
    THEN [l EXCEPT
            !.display = [i \in DOMAIN l.display |->
                            IF i - 1 >= TopItems THEN "none" ELSE l.display[i]],
            !.label = "Show More", !.expanded = FALSE]
    ELSE [l EXCEPT
            !.display = [i \in DOMAIN l.display |->
                            IF i - 1 >= TopItems THEN "list-item"
                                                ELSE l.display[i]],
            !.label = "Show Less", !.expanded = TRUE]

InitCollapsibleSections ==
    /\ ~collapseReady
    /\ collapseReady' = TRUE
    /\ roles' = [s \in RoleIds |-> initRoles(roles[s])]
    /\ lists' = [l \in ListIds |-> initShowMore(lists[l])]
    /\ UNCHANGED exceptPageCollapse

\* A click on the toggle button of one roles section.
ToggleDetailsClick ==
    /\ \E s \in RoleIds :
        /\ roles[s].button
        /\ roles[s].clicks < MaxClicks
        /\ roles' = [roles EXCEPT
                        ![s] = [toggleDetails(@) EXCEPT !.clicks = @ + 1]]
    /\ UNCHANGED <<collapseReady, lists>>
    /\ UNCHANGED exceptPageCollapse

\* A click on the 'Show More' button of one list.
ShowMoreClick ==
    /\ \E l \in ListIds :
        /\ lists[l].button
        /\ lists[l].clicks < MaxClicks
        /\ lists' = [lists EXCEPT
                        ![l] = [showMore(@) EXCEPT !.clicks = @ + 1]]
    /\ UNCHANGED <<collapseReady, roles>>
    /\ UNCHANGED exceptPageCollapse

NextCollapse ==
    \/ InitCollapsibleSections
    \/ ToggleDetailsClick
    \/ ShowMoreClick

\* ------------------------------------------------------------------------
\* initPipelineNavigation: one section shown at a time
\* ------------------------------------------------------------------------
\* sections.length
SectionsLength == 5
SectionIdx == 0..(SectionsLength - 1)
\* sections.findIndex(...) when no section has the id
NotFound == -1
Keys == {"ArrowDown", "ArrowRight", "ArrowUp", "ArrowLeft", "Enter"}

NavInit ==
    /\ navReady = FALSE
    /\ currentSectionIndex = 0
    /\ isTransitioning = FALSE
    /\ sectionExists \in [SectionIdx -> BOOLEAN]
    /\ sectionActive \in [SectionIdx -> BOOLEAN]
    /\ \A i \in SectionIdx : sectionActive[i] => sectionExists[i]
    /\ flowActive = [i \in SectionIdx |-> FALSE]
    /\ prevDisabled = FALSE
    /\ nextDisabled = FALSE
    /\ counterCurrent = 0

NavIdle ==
    /\ NavInit
    /\ \A i \in SectionIdx : ~sectionExists[i]

\* The navigation state the functions work on.
Nav ==
    [index |-> currentSectionIndex, transitioning |-> isTransitioning,
     active |-> sectionActive, flow |-> flowActive,
     prev |-> prevDisabled, next |-> nextDisabled,
     counter |-> counterCurrent]

SetNav(n) ==
    /\ currentSectionIndex' = n.index
    /\ isTransitioning' = n.transitioning
    /\ sectionActive' = n.active
    /\ flowActive' = n.flow
    /\ prevDisabled' = n.prev
    /\ nextDisabled' = n.next
    /\ counterCurrent' = n.counter

\* document.querySelector('.section.active'): the first one in the document
\* (the sections stand in the order of the list), NotFound if none.
firstActive(active) ==
    IF \E i \in SectionIdx : active[i]
    THEN CHOOSE i \in SectionIdx :
            active[i] /\ \A j \in SectionIdx : active[j] => i <= j
    ELSE NotFound

\* function showSection(index, animate, direction)
showSection(n, index) ==
    IF n.transitioning THEN n
    ELSE IF ~sectionExists[index] THEN n
    ELSE LET current == firstActive(n.active)
             removed == IF current # NotFound
                        THEN [n.active EXCEPT ![current] = FALSE]
                        ELSE n.active
         IN  [n EXCEPT !.active = [removed EXCEPT ![index] = TRUE],
                       !.transitioning = FALSE]

\* Mutant: the next button is not updated.
updateNavigationStates_nextNotUpdated(n) ==
    [n EXCEPT !.flow = [i \in SectionIdx |-> i = n.index],
              !.prev = (n.index = 0),
              !.counter = n.index + 1]

\* function updateNavigationStates(): flow steps, arrow buttons, counter
updateNavigationStates(n) ==
    [n EXCEPT !.flow = [i \in SectionIdx |-> i = n.index],
              !.prev = (n.index = 0),
              !.next = (n.index = SectionsLength - 1),
              !.counter = n.index + 1]

\* function navigateToSection(index)
navigateToSection(n, index) ==
    IF index = n.index \/ n.transitioning THEN n
    ELSE IF index < 0 \/ index >= SectionsLength THEN n
    ELSE updateNavigationStates([showSection(n, index) EXCEPT !.index = index])

\* function navigateNext()
navigateNext(n) ==
    IF n.index < SectionsLength - 1
    THEN navigateToSection(n, n.index + 1)
    ELSE n

\* function navigatePrev()
navigatePrev(n) ==
    IF n.index > 0 THEN navigateToSection(n, n.index - 1) ELSE n

\* keydown listener
keydown(n, key) ==
    IF n.transitioning THEN n
    ELSE IF key \in {"ArrowDown", "ArrowRight"} THEN navigateNext(n)
    ELSE IF key \in {"ArrowUp", "ArrowLeft"} THEN navigatePrev(n)
    ELSE n

\* initPipelineNavigation(): createFlowIndicator() (step 0 active),
\* createNavigationArrows() (prev disabled, counter 1), showSection(0, false)
InitPipelineNavigation ==
    /\ ~navReady
    /\ navReady' = TRUE
    /\ SetNav(showSection(
           [Nav EXCEPT !.flow = [i \in SectionIdx |-> i = 0],
                       !.prev = TRUE, !.next = FALSE, !.counter = 1], 0))
    /\ UNCHANGED sectionExists
    /\ UNCHANGED exceptPageNav

\* click on flow step `index`
FlowStepClick ==
    /\ navReady
    /\ \E index \in SectionIdx : SetNav(navigateToSection(Nav, index))
    /\ UNCHANGED <<navReady, sectionExists>>
    /\ UNCHANGED exceptPageNav

\* click on a .nav-link: its href names a section or nothing known
NavLinkClick ==
    /\ navReady
    /\ \E sectionIndex \in SectionIdx \cup {NotFound} :
           IF sectionIndex # NotFound
           THEN SetNav(navigateToSection(Nav, sectionIndex))
           ELSE SetNav(Nav)
    /\ UNCHANGED <<navReady, sectionExists>>
    /\ UNCHANGED exceptPageNav

\* click on an .interactive-node: its data-section names a section or not
PipelineNodeClick ==
    /\ navReady
    /\ \E sectionIndex \in SectionIdx \cup {NotFound} :
           IF sectionIndex # NotFound
           THEN SetNav(navigateToSection(Nav, sectionIndex))
           ELSE SetNav(Nav)
    /\ UNCHANGED <<navReady, sectionExists>>
    /\ UNCHANGED exceptPageNav

\* click on #next-section (a disabled button receives no click)
NextSectionClick ==
    /\ navReady /\ ~nextDisabled
    /\ SetNav(navigateNext(Nav))
    /\ UNCHANGED <<navReady, sectionExists>>
    /\ UNCHANGED exceptPageNav

\* click on #prev-section
PrevSectionClick ==
    /\ navReady /\ ~prevDisabled
    /\ SetNav(navigatePrev(Nav))
    /\ UNCHANGED <<navReady, sectionExists>>
    /\ UNCHANGED exceptPageNav

KeyDown ==
    /\ navReady
    /\ \E key \in Keys : SetNav(keydown(Nav, key))
    /\ UNCHANGED <<navReady, sectionExists>>
    /\ UNCHANGED exceptPageNav

NextNav ==
    \/ InitPipelineNavigation
    \/ FlowStepClick
    \/ NavLinkClick
    \/ PipelineNodeClick
    \/ NextSectionClick
    \/ PrevSectionClick
    \/ KeyDown

\* ------------------------------------------------------------------------
\* initProjectFilters: filter buttons and project cards
\* ------------------------------------------------------------------------
\* index * 50 ms before a matching card is shown
ShowStagger == 50
\* 300 ms before a card that does not match gets display 'none'
HideDelay == 300
CardIds == 0..(NumCards - 1)
\* data-filter values of the buttons
Filters == {"all", "backend", "data"}

FilterInit ==
    /\ filtersReady = FALSE
    /\ filterNow = 0
    /\ cardCategories \in [CardIds -> SUBSET (Filters \ {"all"})]
    /\ cardDisplay = [c \in CardIds |-> ""]
    /\ cardOpacity = [c \in CardIds |-> ""]
    /\ filterActive \in {{}, {"all"}}
    /\ filterTimers = {}
    /\ filterSeq = 0
    /\ lastFilter = ""

FilterIdle ==
    /\ FilterInit
    /\ \A c \in CardIds : cardCategories[c] = {}
    /\ filterActive = {}

\* filter === 'all' || categories.includes(filter)
cardMatches(categories, filter) == filter = "all" \/ filter \in categories

\* The timer the click listener starts for card c (index c) at time `at`.
filterTimer(c, filter, categories, at, seq) ==
    IF cardMatches(categories, filter)
    THEN [card |-> c, kind |-> "show", due |-> at + c * ShowStagger,
          seq |-> seq + c]
    ELSE [card |-> c, kind |-> "hide", due |-> at + HideDelay,
          seq |-> seq + c]

\* A timer may run when it is due and no pending timer comes before it:
\* one with an earlier due time, or the same due time and created earlier.
filterTimerRuns(t) ==
    /\ t.due <= filterNow
    /\ \A u \in filterTimers :
           u.due < t.due \/ (u.due = t.due /\ u.seq < t.seq) => u = t

InitProjectFilters ==
    /\ ~filtersReady
    /\ filtersReady' = TRUE
    /\ UNCHANGED <<filterNow, cardCategories, cardDisplay, cardOpacity,
                   filterActive, filterTimers, filterSeq, lastFilter>>
    /\ UNCHANGED exceptPageFilter

\* click on a filter button
FilterClick ==
    /\ filtersReady
    /\ filterSeq < MaxFilterClicks * NumCards
    /\ \E filter \in Filters :
        /\ filterActive' = {filter}
        /\ lastFilter' = filter
        /\ cardOpacity' = [c \in CardIds |->
               IF cardMatches(cardCategories[c], filter)
               THEN cardOpacity[c] ELSE "0"]
        /\ filterTimers' = filterTimers \cup
               {filterTimer(c, filter, cardCategories[c], filterNow,
                            filterSeq) : c \in CardIds}
    /\ filterSeq' = filterSeq + NumCards
    /\ UNCHANGED <<filtersReady, filterNow, cardCategories, cardDisplay>>
    /\ UNCHANGED exceptPageFilter

\* A timer of a filter click runs.
FilterTimerFire ==
    /\ \E t \in filterTimers :
        /\ filterTimerRuns(t)
        /\ filterTimers' = filterTimers \ {t}
        /\ cardDisplay' = [cardDisplay EXCEPT
               ![t.card] = IF t.kind = "show" THEN "flex" ELSE "none"]
    /\ UNCHANGED <<filtersReady, filterNow, cardCategories, cardOpacity,
                   filterActive, filterSeq, lastFilter>>
    /\ UNCHANGED exceptPageFilter

\* 50 ms pass.
FilterTick ==
    /\ filtersReady
    /\ filterNow < MaxFilterTime
    /\ filterNow' = filterNow + ShowStagger
    /\ UNCHANGED <<filtersReady, cardCategories, cardDisplay, cardOpacity,
                   filterActive, filterTimers, filterSeq, lastFilter>>
    /\ UNCHANGED exceptPageFilter

NextFilter ==
    \/ InitProjectFilters
    \/ FilterClick
    \/ FilterTimerFire
    \/ FilterTick

\* ------------------------------------------------------------------------
\* initCaseStudyModals (DOMContentLoaded) and initProjectModals
\* (initializeAnimations): the two modals and their buttons
\* ------------------------------------------------------------------------
FeaturedIds == 0..(MaxFeatured - 1)
NoCard == -1

ModalStart ==
    /\ caseStudyReady = FALSE
    /\ projectModalsReady = FALSE
    /\ btnListeners = [c \in FeaturedIds |-> <<>>]
    /\ caseStudyActive = FALSE
    /\ projectModalActive = FALSE
    /\ bodyOverflow = ""
    /\ caseStudyShown = ""
    /\ projectShown = NoCard
    /\ closesSinceClick = 2
    /\ closeWired = FALSE

ModalInit ==
    /\ ModalStart
    /\ featuredCards \in 0..MaxFeatured
    /\ cardHasTech \in [FeaturedIds -> BOOLEAN]
    /\ \A c \in FeaturedIds : cardHasTech[c] => c < featuredCards

ModalIdle ==
    /\ ModalStart
    /\ featuredCards = 0
    /\ cardHasTech = [c \in FeaturedIds |-> FALSE]

\* The featured cards initProjectModals gets through: on a card without a
\* button, i.e. without .project-tech, card.querySelector('.project-tech')
\* is null and .after(btn) throws, which ends initProjectModals.
wiredCards ==
    {c \in FeaturedIds :
        c < featuredCards /\ \A d \in 0..c : cardHasTech[d]}

\* const projectId = index === 0 ? 'transaction-platform' : 'dealer-locator'
projectId(index) ==
    IF index = 0 THEN "transaction-platform" ELSE "dealer-locator"

\* the modals and the page, as the listeners see them
Modals ==
    [caseActive |-> caseStudyActive, projectActive |-> projectModalActive,
     overflow |-> bodyOverflow, study |-> caseStudyShown,
     card |-> projectShown]

SetModals(m) ==
    /\ caseStudyActive' = m.caseActive
    /\ projectModalActive' = m.projectActive
    /\ bodyOverflow' = m.overflow
    /\ caseStudyShown' = m.study
    /\ projectShown' = m.card

\* function openCaseStudy(id): both ids have a study
openCaseStudy(m, id) ==
    [m EXCEPT !.study = id, !.caseActive = TRUE, !.overflow = "hidden"]

\* function closeCaseStudy()
closeCaseStudy(m) == [m EXCEPT !.caseActive = FALSE, !.overflow = ""]

\* function openProjectModal(projectCard, index)
openProjectModal(m, index) ==
    [m EXCEPT !.card = index, !.projectActive = TRUE, !.overflow = "hidden"]

\* const closeModal of initProjectModals
closeModal(m) == [m EXCEPT !.projectActive = FALSE, !.overflow = ""]

\* One click listener of a card's button.
runListener(m, listener, index) ==
    IF listener = "openCaseStudy" THEN openCaseStudy(m, projectId(index))
    ELSE openProjectModal(m, index)

\* All click listeners of a button, in registration order.
RECURSIVE dispatchClick(_, _, _)
dispatchClick(m, ls, index) ==
    IF ls = <<>> THEN m
    ELSE dispatchClick(runListener(m, Head(ls), index), Tail(ls), index)

\* The two keydown listeners, in registration order: each closes its modal
\* on Escape when that modal is active.
escapeKey(m) ==
    LET m1 == IF m.caseActive THEN closeCaseStudy(m) ELSE m
    IN  IF m1.projectActive THEN closeModal(m1) ELSE m1

\* initCaseStudyModals(): for every featured card a .view-case-study-btn
\* with the openCaseStudy listener is made and, if the card has a
\* .project-tech, inserted before it.
InitCaseStudyModals ==
    /\ ~caseStudyReady
    /\ caseStudyReady' = TRUE
    /\ btnListeners' = [c \in FeaturedIds |->
           IF c < featuredCards /\ cardHasTech[c]
           THEN <<"openCaseStudy">> ELSE <<>>]
    /\ UNCHANGED <<projectModalsReady, featuredCards, cardHasTech, closeWired,
                   caseStudyActive,
                   projectModalActive, bodyOverflow, caseStudyShown,
                   projectShown, closesSinceClick>>
    /\ UNCHANGED exceptPageModal

\* initProjectModals(), after the load event: card.querySelector(
\* '.view-case-study-btn') finds the button initCaseStudyModals inserted,
\* so no button is created and the openProjectModal listener is added to
\* that one.
InitProjectModals ==
    /\ caseStudyReady /\ ~projectModalsReady
    /\ projectModalsReady' = TRUE
    /\ btnListeners' = [c \in FeaturedIds |->
           IF c \in wiredCards
           THEN Append(btnListeners[c], "openProjectModal")
           ELSE btnListeners[c]]
    /\ closeWired' = (wiredCards = {c \in FeaturedIds : c < featuredCards})
    /\ UNCHANGED <<caseStudyReady, featuredCards, cardHasTech, caseStudyActive,
                   projectModalActive, bodyOverflow, caseStudyShown,
                   projectShown, closesSinceClick>>
    /\ UNCHANGED exceptPageModal

\* click on the button of a featured card
CaseStudyButtonClick ==
    /\ \E c \in FeaturedIds :
        /\ btnListeners[c] # <<>>
        /\ SetModals(dispatchClick(Modals, btnListeners[c], c))
    /\ closesSinceClick' = 0
    /\ UNCHANGED <<caseStudyReady, projectModalsReady, featuredCards,
                   cardHasTech, closeWired, btnListeners>>
    /\ UNCHANGED exceptPageModal

\* click on #close-case-study or on the backdrop of #case-study-modal
CaseStudyCloseClick ==
    /\ caseStudyReady /\ caseStudyActive
    /\ SetModals(closeCaseStudy(Modals))
    /\ closesSinceClick' = IF closesSinceClick < 2 THEN closesSinceClick + 1
                                                    ELSE 2
    /\ UNCHANGED <<caseStudyReady, projectModalsReady, featuredCards,
                   cardHasTech, closeWired, btnListeners>>
    /\ UNCHANGED exceptPageModal

\* click on .modal-close or .modal-overlay of #project-modal
ProjectModalCloseClick ==
    /\ closeWired /\ projectModalActive
    /\ SetModals(closeModal(Modals))
    /\ closesSinceClick' = IF closesSinceClick < 2 THEN closesSinceClick + 1
                                                    ELSE 2
    /\ UNCHANGED <<caseStudyReady, projectModalsReady, featuredCards,
                   cardHasTech, closeWired, btnListeners>>
    /\ UNCHANGED exceptPageModal

\* keydown with key 'Escape'
EscapeKeyDown ==
    /\ caseStudyReady
    /\ SetModals(IF closeWired THEN escapeKey(Modals)
                 ELSE IF caseStudyActive THEN closeCaseStudy(Modals)
                 ELSE Modals)
    /\ closesSinceClick' = IF closesSinceClick < 2 THEN closesSinceClick + 1
                                                    ELSE 2
    /\ UNCHANGED <<caseStudyReady, projectModalsReady, featuredCards,
                   cardHasTech, closeWired, btnListeners>>
    /\ UNCHANGED exceptPageModal

NextModal ==
    \/ InitCaseStudyModals
    \/ InitProjectModals
    \/ CaseStudyButtonClick
    \/ CaseStudyCloseClick
    \/ ProjectModalCloseClick
    \/ EscapeKeyDown

\* ------------------------------------------------------------------------
\* Counter animation: animateCounter(element, target, duration)
\* ------------------------------------------------------------------------
\* the period of the interval: setInterval(..., 16)
IntervalMs == 16

Targets == 0..MaxTarget
Durations == 1..MaxDuration

\* no animateCounter call yet
AnimateIdle ==
    /\ animTarget = 0
    /\ animDuration = 1
    /\ animCurrent = 0
    /\ animTimer = FALSE
    /\ animText = 0
    /\ animWritten = FALSE
    /\ animOrdered = TRUE

\* the call's locals and its element
Anim ==
    [target |-> animTarget, duration |-> animDuration,
     current |-> animCurrent, timer |-> animTimer, text |-> animText,
     written |-> animWritten, ordered |-> animOrdered]

SetAnim(a) ==
    /\ animTarget' = a.target
    /\ animDuration' = a.duration
    /\ animCurrent' = a.current
    /\ animTimer' = a.timer
    /\ animText' = a.text
    /\ animWritten' = a.written
    /\ animOrdered' = a.ordered

\* element.textContent = v
animWrite(a, v) ==
    [a EXCEPT !.text = v, !.written = TRUE,
              !.ordered = a.ordered /\ (a.written => v >= a.text)]

\* const increment = target / (duration / 16), in units of 1/duration
increment(a) == a.target * IntervalMs

\* The sums current + increment a tick can get. The sum is a double: the
\* exact one or, when it is not representable, a neighbour of it.
sums(a) ==
    IF a.target = 0 THEN {a.current}
    ELSE {a.current + increment(a) + e : e \in {-1, 0, 1}}

animateTick_strictCompare(a, sum) ==
    IF sum > a.target * a.duration
    THEN [animWrite(a, a.target) EXCEPT !.current = sum, !.timer = FALSE]
    ELSE [animWrite(a, sum \div a.duration) EXCEPT !.current = sum]

\* The interval's callback, with current + increment = sum:
\* current >= target writes target and clears the interval, otherwise
\* Math.floor(current) is written.
animateTick(a, sum) ==
    IF sum >= a.target * a.duration
    THEN [animWrite(a, a.target) EXCEPT !.current = sum, !.timer = FALSE]
    ELSE [animWrite(a, sum \div a.duration) EXCEPT !.current = sum]

\* animateCounter(element, target, duration) is called for an element
AnimateCounter ==
    /\ ~animTimer /\ ~animWritten
    /\ \E t \in Targets, d \in Durations :
           SetAnim([Anim EXCEPT !.target = t, !.duration = d, !.current = 0,
                                !.timer = TRUE])
    /\ UNCHANGED exceptPageAnimate

\* The interval fires; a cleared interval does not fire.
AnimateTick ==
    /\ animTimer
    /\ \E sum \in sums(Anim) : SetAnim(animateTick(Anim, sum))
    /\ UNCHANGED exceptPageAnimate

NextAnimate ==
    \/ AnimateCounter
    \/ AnimateTick

\* Timers keep firing while the page is open.
AnimateFairness == WF_vars(AnimateTick)

\* ------------------------------------------------------------------------
\* resizeHandler = Utils.throttle(resizeCanvas, 250)
\* ------------------------------------------------------------------------
\* the widths the canvas is laid out at
LayoutWidths == 1..NumArgs

\* const scale = isMobile ? 1 : Math.min(dpr, 2)
scaleFor(mobile, dpr) == IF mobile THEN 1 ELSE IF dpr < 2 THEN dpr ELSE 2

\* resizeCanvas(): canvas.width = canvas.offsetWidth * scale
resizeCanvas(width, scale) == width * scale

ResizeStart(widths, dprs) ==
    /\ offsetWidth \in widths
    /\ canvasScale \in {scaleFor(m, d) : m \in BOOLEAN, d \in dprs}
    /\ canvasWidth = resizeCanvas(offsetWidth, canvasScale)
    /\ rsLastArgs = 0
    /\ rsLastCallAt = 0
    /\ rsRanArgs = 0
    /\ rsLate = FALSE

\* the state after initInteractivePipelineCanvas called resizeCanvas()
ResizeInit == ResizeStart(LayoutWidths, 1..MaxDpr)

ResizeIdle == ResizeStart({1}, {1})

\* window 'resize' with the canvas laid out at width w: the throttled
\* resizeCanvas is called with the event, which stands for w here. Events
\* stop early enough for the clock to reach the due time of their timer.
ResizeEvent ==
    /\ now + thDelay <= MaxTime
    /\ \E w \in LayoutWidths :
        LET t == throttled(Throttled, now, thDelay, w)
        IN  /\ SetThrottled(t)
            /\ thFirstCall' = IF thFirstCall # "none" THEN thFirstCall
                               ELSE IF t.invoked THEN "sync" ELSE "deferred"
            /\ offsetWidth' = w
            /\ canvasWidth' = IF t.invoked THEN resizeCanvas(w, canvasScale)
                                            ELSE canvasWidth
            /\ rsLastArgs' = w
            /\ rsLastCallAt' = now
            /\ rsRanArgs' = IF t.invoked THEN w ELSE rsRanArgs
    /\ UNCHANGED <<now, thDelay, canvasScale, rsLate>>
    /\ UNCHANGED exceptResize

\* The timer of resizeHandler runs its callback.
ResizeHandlerTimer ==
    /\ thTimer.pending /\ now >= thTimer.due
    /\ LET t == throttleTimeout(Throttled, now, thDelay)
       IN  /\ SetThrottled(t)
           /\ canvasWidth' = IF t.invoked
                              THEN resizeCanvas(offsetWidth, canvasScale)
                              ELSE canvasWidth
           /\ rsRanArgs' = IF t.invoked THEN thTimer.args ELSE rsRanArgs
           /\ rsLate' = (rsLate \/ (t.invoked /\ now > thTimer.due))
    /\ UNCHANGED <<now, thDelay, thFirstCall, offsetWidth, canvasScale,
                   rsLastArgs, rsLastCallAt>>
    /\ UNCHANGED exceptResize

NextResize ==
    \/ Tick
    \/ ResizeEvent
    \/ ResizeHandlerTimer

\* Time passes and due timers run.
ResizeFairness == WF_vars(Tick) /\ WF_vars(ResizeHandlerTimer)

\* ------------------------------------------------------------------------
\* Specifications
\* ------------------------------------------------------------------------
EffectsIdle == CanvasIdle /\ RegistryInit /\ CountersIdle /\ RevealInit
TimedIdle == ClockInit /\ ThrottleIdle /\ DebounceIdle
BaseIdle ==
    /\ EffectsIdle /\ DeviceIdle /\ ScrollIdle /\ TimedIdle /\ LoadingIdle
    /\ RadarIdle
PageIdleExceptCollapse == NavIdle /\ FilterIdle /\ TooltipIdle /\
                          ModalIdle /\ AnimateIdle /\ ResizeIdle
PageIdleExceptNav == CollapseIdle /\ FilterIdle /\ TooltipIdle /\
                     ModalIdle /\ AnimateIdle /\ ResizeIdle
PageIdleExceptFilter == CollapseIdle /\ NavIdle /\ TooltipIdle /\
                        ModalIdle /\ AnimateIdle /\ ResizeIdle
PageIdleExceptTooltip == CollapseIdle /\ NavIdle /\ FilterIdle /\
                         ModalIdle /\ AnimateIdle /\ ResizeIdle
PageIdleExceptModal == CollapseIdle /\ NavIdle /\ FilterIdle /\
                       TooltipIdle /\ AnimateIdle /\ ResizeIdle
PageIdleExceptAnimate == CollapseIdle /\ NavIdle /\ FilterIdle /\
                         TooltipIdle /\ ModalIdle /\ ResizeIdle
PageIdleExceptResize == CollapseIdle /\ NavIdle /\ FilterIdle /\
                        TooltipIdle /\ ModalIdle /\ AnimateIdle
PageIdle == CollapseIdle /\ NavIdle /\ FilterIdle /\ TooltipIdle /\
            ModalIdle /\ AnimateIdle /\ ResizeIdle
UtilIdle ==
    /\ DeviceIdle /\ ScrollIdle /\ TimedIdle /\ LoadingIdle /\ RadarIdle
    /\ PageIdle

Init == CanvasInit /\ RegistryInit /\ CountersIdle /\ RevealInit /\ UtilIdle
InitRegistry == EffectsIdle /\ UtilIdle
InitCountersSpec ==
    CanvasIdle /\ RegistryInit /\ CountersInit /\ RevealInit /\ UtilIdle
InitReveal == EffectsIdle /\ UtilIdle
InitDevice ==
    /\ EffectsIdle /\ DeviceInit /\ ScrollIdle /\ TimedIdle /\ LoadingIdle
    /\ RadarIdle
    /\ PageIdle
InitScroll ==
    /\ EffectsIdle /\ DeviceIdle /\ ScrollInit /\ TimedIdle /\ LoadingIdle
    /\ RadarIdle
    /\ PageIdle
InitThrottle ==
    /\ EffectsIdle /\ DeviceIdle /\ ScrollIdle /\ LoadingIdle /\ RadarIdle
    /\ ClockInit /\ ThrottleStart /\ DebounceIdle
    /\ PageIdle
InitDebounce ==
    /\ EffectsIdle /\ DeviceIdle /\ ScrollIdle /\ LoadingIdle /\ RadarIdle
    /\ ClockInit /\ ThrottleIdle /\ DebounceStart
    /\ PageIdle
InitLoading ==
    /\ EffectsIdle /\ DeviceIdle /\ ScrollIdle /\ TimedIdle /\ RadarIdle
    /\ ResourcesInit /\ LoadInit
    /\ PageIdle
InitRadar ==
    /\ EffectsIdle /\ DeviceIdle /\ ScrollIdle /\ TimedIdle /\ LoadingIdle
    /\ RadarInit
    /\ PageIdle

InitParticles ==
    /\ CanvasStart(ParticlesTracked) /\ RegistryInit /\ CountersIdle
    /\ RevealInit /\ UtilIdle

Spec == Init /\ [][Next]_vars
SpecParticles == InitParticles /\ [][NextParticles]_vars
SpecFault == InitParticles /\ [][NextFault]_vars
SpecDevice == InitDevice /\ [][NextDevice]_vars
SpecScroll == InitScroll /\ [][NextScroll]_vars
SpecThrottle == InitThrottle /\ [][NextThrottle]_vars
SpecDebounce == InitDebounce /\ [][NextDebounce]_vars
InitCollapse == BaseIdle /\ PageIdleExceptCollapse /\ CollapseInit
SpecCollapse == InitCollapse /\ [][NextCollapse]_vars
InitNav == BaseIdle /\ PageIdleExceptNav /\ NavInit
SpecNav == InitNav /\ [][NextNav]_vars
InitFilter == BaseIdle /\ PageIdleExceptFilter /\ FilterInit
SpecFilter == InitFilter /\ [][NextFilter]_vars
InitTooltip ==
    /\ CanvasInit /\ RegistryInit /\ CountersIdle /\ RevealInit
    /\ DeviceIdle /\ ScrollIdle /\ TimedIdle /\ LoadingIdle /\ RadarIdle
    /\ PageIdleExceptTooltip /\ TooltipInit
SpecTooltip == InitTooltip /\ [][NextTooltip]_vars
InitModal == BaseIdle /\ PageIdleExceptModal /\ ModalInit
SpecModal == InitModal /\ [][NextModal]_vars
InitAnimate == BaseIdle /\ PageIdleExceptAnimate /\ AnimateIdle
SpecAnimate == InitAnimate /\ [][NextAnimate]_vars /\ AnimateFairness
InitResize ==
    /\ EffectsIdle /\ DeviceIdle /\ ScrollIdle /\ LoadingIdle /\ RadarIdle
    /\ ClockInit /\ ThrottleStart /\ DebounceIdle
    /\ PageIdleExceptResize /\ ResizeInit
SpecResize == InitResize /\ [][NextResize]_vars /\ ResizeFairness
SpecRadar == InitRadar /\ [][NextRadar]_vars
SpecLoading == InitLoading /\ [][NextLoading]_vars /\ LoadingFairness
SpecTeardown == Init /\ [][NextTeardown]_vars
SpecRegistry == InitRegistry /\ [][NextRegistry]_vars
SpecCounters == InitCountersSpec /\ [][NextCounters]_vars
SpecReveal == InitReveal /\ [][NextReveal]_vars

\* ------------------------------------------------------------------------
\* Properties
\* ------------------------------------------------------------------------

\* The gated effect exists: initInteractivePipelineCanvas ran past its
\* early returns.
GatedCreated == initialized /\ canvasPresent /\ ~reducedMotion

\* A step in which canvasObserver's callback handles only intersecting
\* entries while a frame of the gated loop is pending.
ReportWhilePending ==
    /\ ioQueue # <<>> /\ ioQueue' = <<>> /\ observing /\ observing'
    /\ \A i \in DOMAIN ioQueue : ioQueue[i]
    /\ GatedPending # {}

\* C1: in every reachable state at most one animation frame request of the
\* gated loop is pending, and a call of the observer callback that reports
\* 'intersecting' while a frame is pending leaves the pending requests as
\* they are.
C1_AtMostOnePendingFrame ==
    /\ [](Cardinality(GatedPending) <= 1)
    /\ [][ReportWhilePending => frames' = frames]_vars

\* C1 witness: the observer callback has just handled intersecting entries
\* with a frame pending, and exactly one frame is pending afterwards.
C1_Witness ==
    /\ lastReport.seen /\ lastReport.kept
    /\ ioQueue = <<>>
    /\ Cardinality(GatedPending) = 1

\* C2 (as claimed): once the gated effect exists, in every state in which
\* the observer has nothing left to deliver, and in every state before its
\* first report, a frame of the gated loop is pending if and only if the
\* canvas intersects the viewport and the effect has not been torn down.
C2_RunningIffIntersecting ==
    (GatedCreated /\ ~unloaded /\ (ioQueue = <<>> \/ ~lastReport.seen))
        => ((GatedPending # {}) <=> (canvasIntersecting /\ ~tornDown))

\* C3 (as claimed): when reduced motion is preferred no frame loop on the
\* canvas is ever started: nothing draws and no frame request is pending.
C3_ReducedMotionNeverAnimates ==
    reducedMotion => (frames = {} /\ lastFrame = "none")

\* C4 (as claimed): while the last report of the canvas observer is 'not
\* intersecting', no animation-frame callback clears or draws on the canvas.
C4_NoFrameDrawsWhileHidden ==
    (lastReport.seen /\ ~lastReport.isIntersecting)
        => lastFrame \notin {"gatedFrame", "ungatedFrame"}

\* C5 (as claimed): when the page has unloaded, every closure pushed to
\* cleanupRegistry has been called exactly once, so the listeners and the
\* observer of the gated effect are gone and no frame of it is pending.
C5_CleanupsRunOnceOnUnload ==
    (unloaded /\ GatedCreated) =>
        /\ \A i \in DOMAIN cleanupRuns : cleanupRuns[i] = 1
        /\ listeners \cap {"resize", "mousemove", "click", "mouseleave"} = {}
        /\ ~observing
        /\ GatedPending = {}

\* C6 (as claimed): a cleanup() call calls every registered closure exactly
\* once, in registration order, and no exception leaves it, also when a
\* closure throws.
C6_CleanupRunsAllContained ==
    regLast.calls > 0 =>
        (regLast.order = regLast.expected /\ ~regLast.threw)

\* C7 (as claimed): a cleanup() call that follows another one with no add()
\* in between calls nothing and throws nothing, and over both calls every
\* closure has been called exactly once.
C7_SecondCleanupIsNoop ==
    regCalls >= 2 =>
        /\ regLast.order = <<>>
        /\ ~regLast.threw
        /\ \A id \in DOMAIN regInvoked : regInvoked[id] = 1

\* C8 (as claimed): once the closures of cleanupRegistry have run, no frame
\* request of the gated loop is pending and no step of the gated loop
\* executes, under any later scroll, resize or mouse event and any timer or
\* notification that was already pending.
C8_NoFrameAfterTeardown ==
    tornDown =>
        /\ GatedPending = {}
        /\ lastFrame \notin {"gatedFrame", "gatedFrameSkipped", "gatedSync"}

\* C9: each counter element is started at most once, and exactly once when
\* the initial check or some scroll event found its section visible.
C9_CountersStartOnce ==
    countersReady =>
        \A s \in Sections, e \in CounterIds :
            /\ counterStarts[s][e] <= 1
            /\ (counterStarts[s][e] = 1) <=> checkedVisible[s]

\* C9 witness: the metrics section fired, its counters ran to their end and
\* it has left the viewport; the impact section exists and no check has
\* found it visible.
C9_Witness ==
    /\ countersReady
    /\ animated["metrics"] /\ ~sectionVisible["metrics"]
    /\ \A e \in CounterIds :
           counterStarts["metrics"][e] = 1 /\ counterRunning["metrics"][e] = 0
    /\ sectionPresent["impact"] /\ ~checkedVisible["impact"]
    /\ \A e \in CounterIds : counterStarts["impact"][e] = 0

\* C10 (as claimed): each observed element has its reveal scheduled at most
\* once, and once it is scheduled the observer no longer observes it.
C10_RevealOnceThenUnobserved ==
    revealReady =>
        \A o \in Observers, e \in RevealEls :
            /\ revealScheduled[o][e] <= 1
            /\ (revealScheduled[o][e] >= 1 => e \notin observed[o])

\* C11: when #pipeline-canvas is absent, initInteractivePipelineCanvas and
\* initInteractivePipeline return without effect: no listener, observer,
\* cleanup closure, timer or frame request exists, the closure variables
\* keep their initial values, and nothing ever draws.
C11_MissingCanvasIsNoop ==
    ~canvasPresent =>
        /\ frames = {} /\ listeners = {}
        /\ ~observing /\ ioQueue = <<>>
        /\ cleanupRegistry = <<>>
        /\ ~resizeThrottle.timer /\ ~moveThrottle.timer
        /\ animationFrameId = Null /\ animationFrame = Null
        /\ lastFrame = "none"

\* C11 witness: both init functions have run on a page without the canvas
\* and the page has been unloaded since.
C11_Witness ==
    ~canvasPresent /\ domReady /\ initialized /\ unloaded

\* The last call of the observer callback ended on 'not intersecting'.
Paused == lastReport.seen /\ ~lastReport.isIntersecting

\* A step in which the observer callback handles an intersecting entry.
ResumeReport ==
    /\ ioQueue # <<>> /\ ioQueue' = <<>>
    /\ \E i \in DOMAIN ioQueue : ioQueue[i]

\* The particles after k more frames.
RECURSIVE updateTimes(_, _)
updateTimes(ps, k) ==
    IF k = 0 THEN ps ELSE updateTimes(updateParticles(ps), k - 1)

\* C12: while the canvas is reported out of the viewport no frame request
\* of the gated loop is pending; every step up to the next intersecting
\* report runs no step of the gated loop and leaves `particles` as it is
\* (same particles, same progress, start node and end node); the report
\* that ends the pause continues from exactly these particles and leaves a
\* frame request pending.
C12_PauseKeepsParticles ==
    /\ [](Paused => GatedPending = {})
    /\ [][(Paused /\ ~ResumeReport) =>
            /\ particles' = particles
            /\ lastFrame' \notin {"gatedSync", "gatedFrame", "gatedFrameSkipped"}
         ]_vars
    /\ [][(Paused /\ ResumeReport /\ ~Paused') =>
            /\ GatedPending' # {}
            /\ \E k \in 1..MaxEntries : particles' = updateTimes(particles, k)
         ]_vars

\* C12 witness: the loop is paused with particles on different segments,
\* one of which has passed a node since its creation; the other loop has
\* just drawn a frame, and the canvas is back in the viewport with the
\* report still to come.
C12_Witness ==
    /\ Paused /\ GatedPending = {}
    /\ canvasIntersecting /\ ioQueue # <<>>
    /\ lastFrame = "ungatedFrame"
    /\ particles # <<>>
    /\ \E i \in DOMAIN particles : particles[i].progress = 0
    /\ \E i, j \in DOMAIN particles :
           particles[i].startNode # particles[j].startNode

\* A step in which the observer callback is called.
ReportStep == ioQueue # <<>> /\ ioQueue' = <<>>

\* C13 (as claimed): a frame step of the gated loop that throws leaves no
\* frame request pending and the loop recorded as not running
\* (animationFrameId null); and every later observer report still makes the
\* normal transition: it leaves the loop running when its last entry is
\* intersecting and paused when it is not.
C13_FaultDegradesToPaused ==
    /\ [](lastFrame = "gatedFrameThrew" =>
            (GatedPending = {} /\ animationFrameId = Null))
    /\ [][ReportStep =>
            ((GatedPending' # {}) <=> ioQueue[Len(ioQueue)])]_vars

\* C14: the tier is low exactly when the core count, 2 if not reported, is
\* at most 4 or the memory, 4 GiB if not reported, is at most 4 GiB, so a
\* device reporting 2 cores is low tier whatever its memory; the particle
\* count is 5 on the low tier, else 10 below 768 px and 20 from 768 px on,
\* as the width was when the count was taken; the low tier gets a quarter
\* of the 20.
C14_AdaptiveParticleCount ==
    deviceProbed =>
        /\ isLowEnd <=> \/ hardwareConcurrency <= 4
                        \/ deviceMemory <= 16
        /\ hardwareConcurrency = 2 => isLowEnd
        /\ isLowEnd => particleCount = 5
        /\ (~isLowEnd /\ isMobile) => particleCount = 10
        /\ (~isLowEnd /\ ~isMobile) => particleCount = 20
        /\ particleCount \in {5, 10, 20}
        /\ isLowEnd => 4 * particleCount = 20

\* C14 witness: Scenario E, two cores on a wide viewport with 8 GiB.
C14_Witness ==
    /\ deviceProbed
    /\ hardwareConcurrency = 2 /\ deviceMemory = 32 /\ innerWidth = 1440
    /\ isLowEnd /\ particleCount = 5

\* C15 (as claimed): no scroll handler of pipeline-main.js executes twice
\* within one 100 ms window, whatever the sequence of scroll events.
C15_ScrollHandlersThrottled ==
    \A h \in ScrollHandlers : ~tooSoon[h]

\* C16: whatever the delay and the times of the calls, func is never
\* invoked less than delay ms after its previous invocation, and the first
\* call of the throttled function invokes func during the call.
C16_ThrottleLimitsRate ==
    /\ ~thTooSoon
    /\ thFirstCall \in {"none", "sync"}
    /\ (thFirstCall = "sync" => thInvokedAt # 0)

\* C16 witness: func has been invoked by the first call and again by the
\* timer, and a later call has a timer pending.
C16_Witness ==
    /\ thFirstCall = "sync"
    /\ thInvocations = 2
    /\ thDelay > 1
    /\ thInvokedAt = thLastRan
    /\ thTimer.pending /\ thTimer.due > now

\* C17 (as claimed): func is invoked only when delay ms have passed since
\* the most recent call, with that call's arguments, and every maximal burst
\* of calls produces exactly one invocation: no burst is left without one
\* when the next burst begins, and once no timer is pending there are as
\* many invocations as bursts.
C17_DebounceOncePerBurst ==
    /\ ~dbBadInvoke
    /\ dbLost = 0
    /\ dbInvocations <= dbBursts
    /\ ~dbTimer.pending => dbInvocations = dbBursts

\* C17 (amended): func is invoked only when at least delay ms have passed
\* since the most recent call, with that call's arguments, and at most once
\* per burst; a burst produces its invocation when its timer runs before
\* the next call, and none when a call cancels the timer first, which a
\* call coming delay ms or more after the burst's last call still does as
\* long as the timer's callback has not run.
C17_DebounceAmended ==
    /\ ~dbBadInvoke
    /\ dbInvocations + dbLost + (IF dbTimer.pending THEN 1 ELSE 0) = dbBursts
    /\ dbTimer.pending =>
           (dbTimer.args = dbLastCallArgs /\ dbTimer.due = dbLastCallAt + dbDelay)

\* C17 witness: two bursts have begun; the first lost its invocation to a
\* call that came before its overdue timer ran, the second has produced its
\* one invocation, and no timer is pending.
C17_Witness ==
    /\ dbBursts = 2 /\ dbLost = 1 /\ dbInvocations = 1
    /\ ~dbTimer.pending
    /\ dbDelay > 1

\* C18 (as claimed): the promise returned by waitForResources(), in either
\* implementation, is never rejected and is not settled while
\* document.fonts.ready is unsettled or an image is still pending.
C18_WaitsForAllResources ==
    \A m \in Impls :
        /\ wfr[m].state # "rejected"
        /\ wfr[m].state = "resolved" =>
               (fontsReady /\ \A i \in ImageIds : images[i] # "pending")

\* The load event has been dispatched on a page with both elements.
LoadedWithElements == loadStage # "idle" /\ loadingScreen /\ mainContainer

\* C19: initializeAnimations is called at most once, and the loading screen
\* is hidden and the page shown exactly when it has been called, which is
\* never before the awaited waitForResources() has resolved; and after the
\* load event on a page with both elements this happens eventually, with
\* any subset of the images failing.
C19_LoadingScreenGoesAway ==
    /\ [](/\ initCalls <= 1
          /\ (initCalls = 1) <=> screenHidden
          /\ (initCalls = 1) <=> mainShown
          /\ initCalls = 1 => wfr["inline"].state = "resolved")
    /\ (LoadedWithElements ~> (screenHidden /\ mainShown /\ initCalls = 1))

\* C19 witness: the page is shown and initialised although every image
\* has failed to load.
C19_Witness ==
    /\ screenHidden /\ mainShown /\ initCalls = 1 /\ initialized
    /\ wfr["inline"].state = "resolved"
    /\ \A i \in ImageIds : images[i] = "broken"

\* C20 (as claimed): at most one draw-in loop is ever started; once an
\* intersecting entry has been delivered exactly one loop has been started
\* and the observer is disconnected; and a loop has a frame requested only
\* while its progress is at most 1.
C20_RadarDrawInOneShot ==
    /\ Len(radarLoops) <= 1
    /\ (radarReady /\ radarContainer /\ ~radarObserving) =>
           Len(radarLoops) = 1
    /\ \A i \in DOMAIN radarLoops :
           radarLoops[i].pending => progressLE1(radarLoops[i].progress)

Odd(n) == n % 2 = 1

\* C21 (as claimed): once the toggles are set up, for every roles section
\* with a heading and a list: the list is collapsed until the first click,
\* and the list is expanded, the button reads 'Hide Details' and carries
\* 'expanded' exactly after an odd number of clicks; the button reads
\* 'Show Details' otherwise.
C21_RolesToggleAlternates ==
    collapseReady =>
        \A s \in RoleIds :
            (roles[s].heading /\ roles[s].list) =>
                /\ roles[s].button
                /\ Odd(roles[s].clicks) <=> (roles[s].opacity = "1")
                /\ ~Odd(roles[s].clicks) <=>
                       (roles[s].opacity = "0" /\ roles[s].maxHeight = 0)
                /\ Odd(roles[s].clicks) <=> (roles[s].label = "Hide Details")
                /\ Odd(roles[s].clicks) <=> roles[s].expanded
                /\ ~Odd(roles[s].clicks) <=>
                       (roles[s].label = "Show Details")

\* An item is hidden by its inline style.
Hidden(l, i) == lists[l].display[i] = "none"

\* C22: the first three items of a list are never hidden; once the buttons
\* are set up, a list of at most 3 items has no button and no hidden item,
\* and in a longer list every item of index >= 3 is displayed exactly when
\* the button carries 'expanded', which is exactly after an odd number of
\* clicks, the label being 'Show Less' then and 'Show More' otherwise.
C22_TopThreeUntilShowMore ==
    \A l \in ListIds :
        LET n == Len(lists[l].display)
        IN  /\ \A i \in 1..n : i - 1 < TopItems => ~Hidden(l, i)
            /\ collapseReady =>
                IF n <= TopItems
                THEN ~lists[l].button /\ \A i \in 1..n : ~Hidden(l, i)
                ELSE /\ lists[l].button
                     /\ \A i \in 1..n :
                            i - 1 >= TopItems =>
                                (~Hidden(l, i) <=> lists[l].expanded)
                     /\ lists[l].expanded <=> Odd(lists[l].clicks)
                     /\ lists[l].label = IF lists[l].expanded
                                         THEN "Show Less" ELSE "Show More"

\* C22 witness: a list of more than three items, expanded and collapsed
\* again: the fourth item is hidden, the third is not.
C22_Witness ==
    \E l \in ListIds :
        /\ Len(lists[l].display) > TopItems
        /\ lists[l].clicks = 2
        /\ Hidden(l, TopItems + 1) /\ ~Hidden(l, TopItems)
        /\ lists[l].label = "Show More"

\* C23: once the navigation is set up, currentSectionIndex is within
\* 0..4; the previous button is disabled exactly at index 0, the next
\* button exactly at index 4, the counter shows index + 1 and exactly the
\* flow step at the index is active; navigateNext at the last section,
\* navigatePrev at the first one and navigateToSection to the current or an
\* out-of-range index change nothing.
C23_NavigationControlsConsistent ==
    navReady =>
        /\ currentSectionIndex \in SectionIdx
        /\ prevDisabled <=> (currentSectionIndex = 0)
        /\ nextDisabled <=> (currentSectionIndex = SectionsLength - 1)
        /\ counterCurrent = currentSectionIndex + 1
        /\ \A i \in SectionIdx : flowActive[i] <=> (i = currentSectionIndex)
        /\ currentSectionIndex = SectionsLength - 1 => navigateNext(Nav) = Nav
        /\ currentSectionIndex = 0 => navigatePrev(Nav) = Nav
        /\ \A index \in (-1)..SectionsLength :
               (index = currentSectionIndex \/ index \notin SectionIdx) =>
                   navigateToSection(Nav, index) = Nav

\* C23 witness: the last section has been reached and an ArrowDown there
\* changes nothing.
C23_Witness ==
    /\ navReady
    /\ currentSectionIndex = SectionsLength - 1
    /\ nextDisabled /\ ~prevDisabled
    /\ counterCurrent = SectionsLength
    /\ keydown(Nav, "ArrowDown") = Nav

\* C24 (as claimed): once the navigation is set up, exactly one section
\* element carries 'active' and it is the one of sections[currentSectionIndex].
C24_DisplayedSectionMatches ==
    navReady =>
        \A i \in SectionIdx : sectionActive[i] <=> (i = currentSectionIndex)

\* C25 (as claimed): once a filter has been clicked and all timers have
\* fired, every card matching the last clicked filter has display 'flex'
\* and an inline opacity other than '0', every other card has display
\* 'none', and exactly the last clicked button is active.
C25_FilterConverges ==
    (lastFilter # "" /\ filterTimers = {}) =>
        /\ filterActive = {lastFilter}
        /\ \A c \in CardIds :
               IF cardMatches(cardCategories[c], lastFilter)
               THEN cardDisplay[c] = "flex" /\ cardOpacity[c] # "0"
               ELSE cardDisplay[c] = "none"

\* C26 (as claimed): while a mouseleave is the last pointer event on the
\* canvas, hoveredNode is null and the tooltip is hidden (opacity '0');
\* and whenever hoveredNode is non-null, as the last handled mousemove left
\* it, and no hide timer is pending, the tooltip has display 'block'.
C26_TooltipFollowsHover ==
    /\ tipLastEvent = "leave" =>
           (hoveredNode = NoNode /\ tooltipOpacity = "0")
    /\ (tooltipPresent /\ hoveredNode # NoNode /\ tooltipTimers = 0) =>
           tooltipDisplay = "block"

\* C27 (as claimed): document.body.style.overflow is 'hidden' exactly
\* when at least one of #project-modal and #case-study-modal is active; in
\* particular, one close action after a click on a card's button does not
\* leave a modal active with the overflow unlocked.
C27_ScrollLockedWhileModalOpen ==
    /\ (bodyOverflow = "hidden") <=> (caseStudyActive \/ projectModalActive)
    /\ closesSinceClick = 1 =>
           ~((caseStudyActive \/ projectModalActive) /\ bodyOverflow = "")

\* C28: every value a tick of animateCounter writes is at least the value
\* written before it and at most target; once the interval is set it is
\* eventually cleared with textContent equal to target; and once it is
\* cleared textContent is not written again.
C28_AnimateCounterEndsOnTarget ==
    /\ [](animOrdered /\ (animWritten => animText <= animTarget))
    /\ [](animTimer => <>(~animTimer /\ animWritten /\ animText = animTarget))
    /\ [][(~animTimer /\ animWritten) => animText' = animText]_vars

\* an interval has been cleared after at least one tick wrote less than the
\* target: current is the third sum or a later one
C28_Witness ==
    /\ ~animTimer /\ animWritten
    /\ animTarget = MaxTarget /\ animText = animTarget
    /\ animCurrent >= 3 * (increment(Anim) - 1)

\* C29: every particle of the gated loop has 0 <= progress < 1 (progress
\* counts steps of the particle's speed, ProgressSteps of them making 1),
\* travels from a node of the list to the next one, and has its start
\* node's colour; and an update that takes a particle off the last segment
\* puts it on the first one, from node 0 to node 1.
C29_ParticlesOnOneSegment ==
    /\ [](\A i \in DOMAIN particles :
            LET p == particles[i]
            IN  /\ 0 <= p.progress /\ p.progress < ProgressSteps
                /\ p.startNode \in 0..(NumNodes - 2)
                /\ p.endNode = p.startNode + 1
                /\ p.color = nodeColor(p.startNode))
    /\ [][\A i \in DOMAIN particles \cap DOMAIN particles' :
            (/\ particles[i].endNode = NumNodes - 1
             /\ particles'[i].startNode # particles[i].startNode)
            => (particles'[i].startNode = 0 /\ particles'[i].endNode = 1)
       ]_vars

\* C29 witness: the gated loop has just drawn a frame in which one particle
\* completed the last segment (it is at the start of the first one) and
\* another one moved on to the last segment.
C29_Witness ==
    /\ lastFrame = "gatedFrame"
    /\ \E i, j \in DOMAIN particles :
           /\ particles[i].startNode = 0 /\ particles[i].progress = 0
           /\ particles[j].endNode = NumNodes - 1 /\ particles[j].progress = 0

\* Once the calls have ended func has been invoked with the arguments of
\* the latest call, at or after that call, and the canvas has the size of
\* its final layout.
LastCallServed ==
    rsLastArgs # 0 =>
        /\ rsRanArgs = rsLastArgs /\ thInvokedAt >= rsLastCallAt
        /\ ~thTimer.pending
        /\ canvasWidth = resizeCanvas(offsetWidth, canvasScale)

\* the later of two times
Later(a, b) == IF a >= b THEN a ELSE b

\* C30 (as claimed): after any finite sequence of calls func is eventually
\* invoked with the arguments of the final call, so the canvas ends up with
\* the size of the final layout; and a deferred invocation never happens
\* later than delay ms after the preceding invocation, or than the call if
\* delay ms had passed by then.
C30_ThrottleKeepsLastCall ==
    /\ <>[]LastCallServed
    /\ []~rsLate

\* C30 (amended): func is eventually invoked with the arguments of the
\* final call and the canvas ends up with the size of the final layout; a
\* deferred call's timer carries the latest call's arguments and is due
\* delay ms after the preceding invocation of func, or at the call if delay
\* ms had passed by then; its callback runs at or after that time.
C30_Amended ==
    /\ <>[]LastCallServed
    /\ [](thTimer.pending =>
            /\ thTimer.args = rsLastArgs
            /\ thTimer.due = Later(rsLastCallAt, thInvokedAt + thDelay))

\* C30 witness: the final call was deferred and its timer ran late, after
\* which func has run with the final arguments and the canvas has a new
\* size.
C30_Witness ==
    /\ rsLate /\ ~thTimer.pending
    /\ thInvocations >= 2
    /\ rsRanArgs = rsLastArgs /\ thInvokedAt > rsLastCallAt + thDelay
    /\ canvasWidth = resizeCanvas(offsetWidth, canvasScale)
    /\ canvasScale = 2 /\ offsetWidth = NumArgs

====
